---- MODULE Spec2Model ----
(***************************************************************************)
(* The slot-based portfolio engines of QuantTrade:                         *)
(*   backtest_midas_swap.main, backtest_midas.main and                     *)
(*   live_portfolio_manager.main (src/src/quanttrade/models_2.0).          *)
(*                                                                         *)
(* Money and prices are integers in thousandths of a currency unit; a      *)
(* product with a rate (slippage, commission, stop level) is rounded       *)
(* toward zero, where the code computes in binary64.  Scores are integers  *)
(* in hundredths.  Dates are the indices 1..NumDays of the sorted axis.    *)
(***************************************************************************)
EXTENDS Integers, Sequences, FiniteSets, TLC

VARIABLES
    engine,   \* the program this behaviour runs
    day,      \* number of dates the backtest loop has processed
    led,      \* the ledger in memory: cash, portfolio, pending_orders, trade_log, equity
    obs,      \* history of the last step: orders it met without bar / without cash
    axis,     \* number of dates in the table
    rows,     \* the rows of the one date the program keeps reading
    disk,     \* the files of the live manager: state, equity log, trade log
    pc,       \* where the live manager's run is
    committed \* history: the dates simulated by runs whose save_state completed

vars == <<engine, day, led, obs, axis, rows, disk, pc, committed>>

----------------------------------------------------------------------------
(* Bounds of the model.  The program's own values are in the comments.     *)

NumDays == 4            \* length of the date axis
MAX_POSITIONS == 2      \* 5 in the source
HORIZON_DAYS == 2       \* 20 in the source
TOP_K == 2              \* 5 in the source
SWAP_LIMIT == 1         \* 2 in the source
InitialUnits == 10      \* INITIAL_CAPITAL, in currency units

(* Program constants, as rates per thousand / per hundred.                 *)
COMMISSION_PM == 2      \* COMMISSION = 0.002
SLIPPAGE_BUY_PM == 10   \* SLIPPAGE_BUY = 0.01
SLIPPAGE_SELL_PM == 5   \* SLIPPAGE_SELL = 0.005
STOP_LOSS_PM == 50      \* STOP_LOSS_PCT = -0.05
SWAP_GAP_PCT == 5       \* SWAP_GAP = 0.05
TAKE_PROFIT_PM == 100   \* TAKE_PROFIT = 0.10 (backtest_midas)

Milli(x) == x * 1000
INITIAL_CAPITAL == Milli(InitialUnits)

SymSeq == <<"A", "B", "C", "D">>  \* row order of the symbols in the table
Symbols == {SymSeq[i] : i \in 1..Len(SymSeq)}
SymIdx(s) == CHOOSE i \in 1..Len(SymSeq) : SymSeq[i] = s

----------------------------------------------------------------------------
(* Day inputs: one bar (or none) and one score per symbol.                 *)

NoBar == [has |-> FALSE, open |-> 0, low |-> 0, close |-> 0, score |-> 0]
Shapes == { [open |-> Milli(3), low |-> Milli(3), close |-> Milli(3)],
            [open |-> Milli(2), low |-> Milli(2), close |-> Milli(2)] }
Scores == {20, 60}
Bars == {NoBar} \cup
        { [has |-> TRUE, open |-> sh.open, low |-> sh.low, close |-> sh.close,
           score |-> sc] : sh \in Shapes, sc \in Scores }
\* D is listed on the wide table only
DayInputs == {b \in [Symbols -> Bars] : ~b["D"].has}

----------------------------------------------------------------------------
(* Arithmetic.                                                             *)

Min(a, b) == IF a < b THEN a ELSE b
Max(a, b) == IF a > b THEN a ELSE b

\* x * (1 + pm/1000), x * (1 - pm/1000)
Up(x, pm) == (x * (1000 + pm)) \div 1000
Down(x, pm) == (x * (1000 - pm)) \div 1000

RECURSIVE SumSeq(_)
SumSeq(s) == IF s = <<>> THEN 0 ELSE Head(s) + SumSeq(Tail(s))

RemoveAt(s, i) == SubSeq(s, 1, i - 1) \o SubSeq(s, i + 1, Len(s))

\* the sequences that list the set S once each
Orderings(S) ==
    { q \in [1..Cardinality(S) -> S] : \A i, j \in 1..Cardinality(S) : i # j => q[i] # q[j] }

SeqSet(s) == { s[i] : i \in 1..Len(s) }

\* the elements of s that are in S, in order
RECURSIVE SelectIn(_, _)
SelectIn(s, S) ==
    IF s = <<>> THEN <<>>
    ELSE (IF Head(s) \in S THEN <<Head(s)>> ELSE <<>>) \o SelectIn(Tail(s), S)

\* day.sort_values("score", ascending=False): the symbols with a bar, by
\* descending score, equal scores in row order.
DaySorted(bars) ==
    SortSeq(SelectIn(SymSeq, {s \in Symbols : bars[s].has}),
            LAMBDA a, b : \/ bars[a].score > bars[b].score
                          \/ /\ bars[a].score = bars[b].score
                             /\ SymIdx(a) < SymIdx(b))

Head_(s, n) == SubSeq(s, 1, Min(n, Len(s)))

----------------------------------------------------------------------------
(* backtest_midas_swap                                                     *)

\* compute_stop_loss(entry_price, row): <<hit, exit_raw>>
compute_stop_loss(entry_price, row) ==
    LET stop_level == Down(entry_price, STOP_LOSS_PM)
    IN  IF row.low <= stop_level
        THEN IF row.open <= stop_level
             THEN [hit |-> TRUE, exit_raw |-> row.open]
             ELSE [hit |-> TRUE, exit_raw |-> stop_level]
        ELSE [hit |-> FALSE, exit_raw |-> 0]

\* index of the first position of the symbol, 0 when there is none
PosIdx(portfolio, sym) ==
    IF \E i \in 1..Len(portfolio) : portfolio[i].symbol = sym
    THEN CHOOSE i \in 1..Len(portfolio) :
            /\ portfolio[i].symbol = sym
            /\ \A j \in 1..(i - 1) : portfolio[j].symbol # sym
    ELSE 0

\* the state threaded through the pending-order loop
FillState(L) ==
    [cash |-> L.cash, portfolio |-> L.portfolio, trade_log |-> L.trade_log,
     new_pending |-> <<>>, nobar |-> {}, nocash |-> {}, filled |-> {},
     min_cash |-> L.cash]

\* faulty variant: the SELL fill credits the revenue before commission
SwapFillSell_NoCommission(order, F, dt, bars) ==
    LET sym == order.symbol
        pos_idx == PosIdx(F.portfolio, sym)
    IN  IF pos_idx = 0 THEN F
        ELSE LET pos == F.portfolio[pos_idx]
                 exit_gross == Down(bars[sym].open, SLIPPAGE_SELL_PM)
             IN  [F EXCEPT
                    !.cash = @ + pos.shares * exit_gross,
                    !.trade_log = Append(@,
                        [entry_date |-> pos.entry_date, exit_date |-> dt,
                         symbol |-> sym, entry_price |-> pos.entry_price,
                         exit_price |-> exit_gross, shares |-> pos.shares,
                         reason |-> order.reason, days_held |-> pos.days_held,
                         decision_date |-> order.decision_date]),
                    !.portfolio = RemoveAt(@, pos_idx),
                    !.filled = @ \cup {order}]

SwapFillSell(order, F, dt, bars) ==
    LET sym == order.symbol
        pos_idx == PosIdx(F.portfolio, sym)
    IN  IF pos_idx = 0 THEN F
        ELSE LET pos == F.portfolio[pos_idx]
                 exit_gross == Down(bars[sym].open, SLIPPAGE_SELL_PM)
                 revenue == pos.shares * exit_gross
                 net_revenue == Down(revenue, COMMISSION_PM)
             IN  [F EXCEPT
                    !.cash = @ + net_revenue,
                    !.trade_log = Append(@,
                        [entry_date |-> pos.entry_date, exit_date |-> dt,
                         symbol |-> sym, entry_price |-> pos.entry_price,
                         exit_price |-> exit_gross, shares |-> pos.shares,
                         reason |-> order.reason, days_held |-> pos.days_held,
                         decision_date |-> order.decision_date]),
                    !.portfolio = RemoveAt(@, pos_idx),
                    !.filled = @ \cup {order}]

\* faulty variant: the BUY fill without the cash check
SwapFillBuy_NoCashCheck(order, F, dt, bars) ==
    LET sym == order.symbol
        entry_gross == Up(bars[sym].open, SLIPPAGE_BUY_PM)
        shares == order.capital \div entry_gross
        net_cost == Up(shares * entry_gross, COMMISSION_PM)
    IN  IF shares <= 0 THEN F
        ELSE [F EXCEPT
                !.cash = @ - net_cost,
                !.min_cash = Min(@, F.cash - net_cost),
                !.portfolio = Append(@,
                    [symbol |-> sym, entry_date |-> dt, entry_price |-> entry_gross,
                     shares |-> shares, days_held |-> 0]),
                !.trade_log = Append(@,
                    [entry_date |-> dt, exit_date |-> 0, symbol |-> sym,
                     entry_price |-> entry_gross, exit_price |-> 0,
                     shares |-> shares, reason |-> order.reason, days_held |-> 0,
                     decision_date |-> order.decision_date]),
                !.filled = @ \cup {order}]

SwapFillBuy(order, F, dt, bars) ==
    LET sym == order.symbol
        entry_gross == Up(bars[sym].open, SLIPPAGE_BUY_PM)
        shares == order.capital \div entry_gross
        cost == shares * entry_gross
        net_cost == Up(cost, COMMISSION_PM)
    IN  IF shares <= 0 THEN F
        ELSE IF net_cost > F.cash THEN [F EXCEPT !.nocash = @ \cup {order}]
        ELSE [F EXCEPT
                !.cash = @ - net_cost,
                !.min_cash = Min(@, F.cash - net_cost),
                !.portfolio = Append(@,
                    [symbol |-> sym, entry_date |-> dt, entry_price |-> entry_gross,
                     shares |-> shares, days_held |-> 0]),
                !.trade_log = Append(@,
                    [entry_date |-> dt, exit_date |-> 0, symbol |-> sym,
                     entry_price |-> entry_gross, exit_price |-> 0,
                     shares |-> shares, reason |-> order.reason, days_held |-> 0,
                     decision_date |-> order.decision_date]),
                !.filled = @ \cup {order}]

SwapFillOne(order, F, dt, bars) ==
    IF order.target_date # dt
    THEN [F EXCEPT !.new_pending = Append(@, order)]
    ELSE IF ~bars[order.symbol].has
    THEN [F EXCEPT !.new_pending = Append(@, order), !.nobar = @ \cup {order}]
    ELSE IF order.type = "SELL" THEN SwapFillSell(order, F, dt, bars)
    ELSE SwapFillBuy(order, F, dt, bars)

RECURSIVE SwapFillOrders(_, _, _, _)
SwapFillOrders(orders, F, dt, bars) ==
    IF orders = <<>> THEN F
    ELSE SwapFillOrders(Tail(orders), SwapFillOne(Head(orders), F, dt, bars), dt, bars)


\* faulty variant: a day without bar is not counted in days_held
SwapStopOne_NoBarNotCounted(F, idx_p, dt, bars) ==
    LET pos == F.portfolio[idx_p]
        sym == pos.symbol
    IN  IF ~bars[sym].has THEN F
        ELSE LET sl == compute_stop_loss(pos.entry_price, bars[sym])
                 exit_gross == Down(sl.exit_raw, SLIPPAGE_SELL_PM)
                 net_revenue == Down(pos.shares * exit_gross, COMMISSION_PM)
             IN  IF sl.hit
                 THEN [F EXCEPT
                        !.cash = @ + net_revenue,
                        !.trade_log = Append(@,
                            [entry_date |-> pos.entry_date, exit_date |-> dt,
                             symbol |-> sym, entry_price |-> pos.entry_price,
                             exit_price |-> exit_gross, shares |-> pos.shares,
                             reason |-> "STOP_LOSS", days_held |-> pos.days_held,
                             decision_date |-> dt]),
                        !.portfolio = RemoveAt(@, idx_p)]
                 ELSE [F EXCEPT !.portfolio[idx_p].days_held = @ + 1]

\* faulty variant: a stop-loss that records the exit and keeps the position
SwapStopOne_NoPop(F, idx_p, dt, bars) ==
    LET pos == F.portfolio[idx_p]
        sym == pos.symbol
        sl == compute_stop_loss(pos.entry_price, bars[sym])
        exit_gross == Down(sl.exit_raw, SLIPPAGE_SELL_PM)
    IN  IF bars[sym].has /\ sl.hit
        THEN [F EXCEPT
                !.cash = @ + Down(pos.shares * exit_gross, COMMISSION_PM),
                !.trade_log = Append(@,
                    [entry_date |-> pos.entry_date, exit_date |-> dt,
                     symbol |-> sym, entry_price |-> pos.entry_price,
                     exit_price |-> exit_gross, shares |-> pos.shares,
                     reason |-> "STOP_LOSS", days_held |-> pos.days_held,
                     decision_date |-> dt])]
        ELSE [F EXCEPT !.portfolio[idx_p].days_held = @ + 1]

\* one pass of the stop-loss loop, idx_p from len(portfolio) down to 1
SwapStopOne(F, idx_p, dt, bars) ==
    LET pos == F.portfolio[idx_p]
        sym == pos.symbol
    IN  IF ~bars[sym].has
        THEN [F EXCEPT !.portfolio[idx_p].days_held = @ + 1]
        ELSE LET sl == compute_stop_loss(pos.entry_price, bars[sym])
                 exit_gross == Down(sl.exit_raw, SLIPPAGE_SELL_PM)
                 revenue == pos.shares * exit_gross
                 net_revenue == Down(revenue, COMMISSION_PM)
             IN  IF sl.hit
                 THEN [F EXCEPT
                        !.cash = @ + net_revenue,
                        !.trade_log = Append(@,
                            [entry_date |-> pos.entry_date, exit_date |-> dt,
                             symbol |-> sym, entry_price |-> pos.entry_price,
                             exit_price |-> exit_gross, shares |-> pos.shares,
                             reason |-> "STOP_LOSS", days_held |-> pos.days_held,
                             decision_date |-> dt]),
                        !.portfolio = RemoveAt(@, idx_p)]
                 ELSE [F EXCEPT !.portfolio[idx_p].days_held = @ + 1]

RECURSIVE SwapStopLoss(_, _, _, _)
SwapStopLoss(F, idx_p, dt, bars) ==
    IF idx_p < 1 THEN F
    ELSE SwapStopLoss(SwapStopOne(F, idx_p, dt, bars), idx_p - 1, dt, bars)

\* mark-to-market value of the open positions: today's close, else entry price
RECURSIVE PortVal(_, _)
PortVal(portfolio, bars) ==
    IF portfolio = <<>> THEN 0
    ELSE LET p == Head(portfolio)
             px == IF bars[p.symbol].has THEN bars[p.symbol].close ELSE p.entry_price
         IN  p.shares * px + PortVal(Tail(portfolio), bars)

\* pos_scores, sorted worst first (list.sort is stable)
PosScores(portfolio, bars) ==
    LET sc(i) == IF bars[portfolio[i].symbol].has
                 THEN bars[portfolio[i].symbol].score ELSE -999
    IN  SortSeq([i \in 1..Len(portfolio) |-> [idx |-> i, score |-> sc(i)]],
                LAMBDA a, b : \/ a.score < b.score
                              \/ a.score = b.score /\ a.idx < b.idx)

SymbolsInPort(portfolio) == {portfolio[i].symbol : i \in 1..Len(portfolio)}

\* best_candidates: the unheld symbols among the TOP_K of the day
BestCandidates(portfolio, day_sorted) ==
    SelectIn(Head_(day_sorted, TOP_K), Symbols \ SymbolsInPort(portfolio))

\* faulty variant: the time exit is planned one day late
TimeExitSymbols_Late(portfolio) ==
    {portfolio[i].symbol : i \in {j \in 1..Len(portfolio) :
                                    portfolio[j].days_held > HORIZON_DAYS}}

\* time_exit_symbols: the held symbols whose days_held reached the horizon
TimeExitSymbols(portfolio) ==
    {portfolio[i].symbol : i \in {j \in 1..Len(portfolio) :
                                    portfolio[j].days_held >= HORIZON_DAYS}}

\* swap_pairs: the k-th worst position against the k-th best candidate
RECURSIVE SwapPairs(_, _, _, _, _, _, _, _)
SwapPairs(k, max_swaps, portfolio, bars, pos_scores, best_candidates, time_exit_symbols, acc) ==
    IF k > max_swaps \/ k > Len(pos_scores) \/ k > Len(best_candidates) THEN acc
    ELSE LET worst_pos == portfolio[pos_scores[k].idx]
             worst_score == pos_scores[k].score
             best_sym == best_candidates[k]
             best_score == bars[best_sym].score
             skip == \/ best_score - worst_score < SWAP_GAP_PCT
                     \/ \E q \in SeqSet(acc) : q.worst.symbol = worst_pos.symbol
                     \/ \E q \in SeqSet(acc) : q.best = best_sym
                     \/ worst_pos.symbol \in time_exit_symbols
         IN  SwapPairs(k + 1, max_swaps, portfolio, bars, pos_scores,
                       best_candidates, time_exit_symbols,
                       IF skip THEN acc
                       ELSE Append(acc, [worst |-> worst_pos, best |-> best_sym]))

\* faulty variant: SWAP_LIMIT is not applied
SwapPairsOf_NoLimit(portfolio, bars, day_sorted) ==
    LET pos_scores == PosScores(portfolio, bars)
        best_candidates == BestCandidates(portfolio, day_sorted)
    IN  SwapPairs(1, Min(Len(pos_scores), Len(best_candidates)),
                  portfolio, bars, pos_scores, best_candidates,
                  TimeExitSymbols(portfolio), <<>>)

SwapPairsOf(portfolio, bars, day_sorted) ==
    LET pos_scores == PosScores(portfolio, bars)
        best_candidates == BestCandidates(portfolio, day_sorted)
    IN  SwapPairs(1, Min(SWAP_LIMIT, Min(Len(pos_scores), Len(best_candidates))),
                  portfolio, bars, pos_scores, best_candidates,
                  TimeExitSymbols(portfolio), <<>>)

\* sell_symbols: the time exits, then the sold side of every swap pair
SellSymbols(time_exit_symbols, swap_pairs) ==
    time_exit_symbols \cup {q.worst.symbol : q \in SeqSet(swap_pairs)}

\* faulty variant: orders scheduled for the day of the decision
NextDt_SameDay(i) == i

\* next_dt = dates[i + 1]: the date an order created on dates[i] is scheduled for
NextDt(i) == i + 1

\* the SELL orders, in the iteration order of the set sell_symbols
SellOrders(sell_order, time_exit_symbols, dt) ==
    [k \in 1..Len(sell_order) |->
        [type |-> "SELL", symbol |-> sell_order[k], target_date |-> NextDt(dt),
         capital |-> 0,
         reason |-> IF sell_order[k] \in time_exit_symbols THEN "TIME_EXIT" ELSE "SWAP",
         decision_date |-> dt]]

\* faulty variant: the BUY of a rotation pair tagged like its SELL
SwapBuyOrders_TaggedSwap(swap_pairs, bars, dt) ==
    [k \in 1..Len(swap_pairs) |->
        [type |-> "BUY", symbol |-> swap_pairs[k].best, target_date |-> NextDt(dt),
         capital |-> swap_pairs[k].worst.shares * swap_pairs[k].worst.entry_price,
         reason |-> "SWAP", decision_date |-> dt]]

SwapBuyOrders(swap_pairs, bars, dt) ==
    [k \in 1..Len(swap_pairs) |->
        LET worst_pos == swap_pairs[k].worst
            est_capital == IF bars[worst_pos.symbol].has
                           THEN worst_pos.shares * bars[worst_pos.symbol].close
                           ELSE worst_pos.shares * worst_pos.entry_price
        IN  [type |-> "BUY", symbol |-> swap_pairs[k].best, target_date |-> NextDt(dt),
             capital |-> est_capital, reason |-> "SWAP_ENTRY", decision_date |-> dt]]

\* faulty variant: the positions flagged TIME_EXIT still count as occupied
FreeSlots_TimeExitsCounted(portfolio, time_exit_symbols) ==
    Max(0, MAX_POSITIONS - Len(portfolio))

FreeSlots(portfolio, time_exit_symbols) ==
    Max(0, MAX_POSITIONS - (Len(portfolio) - Cardinality(time_exit_symbols)))

\* faulty variant: the held symbols are not blocked
ExtraCandidates_HeldNotBlocked(portfolio, swap_pairs, day_sorted, free_slots) ==
    Head_(SelectIn(day_sorted, Symbols \ {q.best : q \in SeqSet(swap_pairs)}),
          free_slots)

\* extra_candidates: the best-scored symbols neither held nor swap-bought
ExtraCandidates(portfolio, swap_pairs, day_sorted, free_slots) ==
    LET symbols_blocked ==
            SymbolsInPort(portfolio) \cup {q.best : q \in SeqSet(swap_pairs)}
    IN  Head_(SelectIn(day_sorted, Symbols \ symbols_blocked), free_slots)

EntryOrders(cash, extra_candidates, free_slots, dt) ==
    IF free_slots > 0
    THEN [k \in 1..Len(extra_candidates) |->
            [type |-> "BUY", symbol |-> extra_candidates[k],
             target_date |-> NextDt(dt), capital |-> cash \div free_slots,
             reason |-> "ENTRY", decision_date |-> dt]]
    ELSE <<>>

\* steps 1-3 of the day: fills, stop-loss, equity. obs: what the fill loop met
SwapSettle(L, dt, bars) ==
    LET F1 == SwapFillOrders(L.pending_orders, FillState(L), dt, bars)
        F2 == SwapStopLoss(F1, Len(F1.portfolio), dt, bars)
    IN  [led |-> [cash |-> F2.cash, portfolio |-> F2.portfolio,
                  pending_orders |-> F2.new_pending, trade_log |-> F2.trade_log,
                  equity |-> [date |-> dt,
                              equity |-> F2.cash + PortVal(F2.portfolio, bars)]],
         obs |-> [nobar |-> F1.nobar, nocash |-> F1.nocash, filled |-> F1.filled,
                  min_cash |-> F1.min_cash]]

\* steps 4-5 of the day: the orders for tomorrow, one ledger for every
\* iteration order of sell_symbols; nothing on the last date
SwapPlan(S, dt, bars) ==
    IF dt = NumDays THEN {S}
    ELSE LET day_sorted == DaySorted(bars)
             time_exit_symbols == TimeExitSymbols(S.portfolio)
             swap_pairs == SwapPairsOf(S.portfolio, bars, day_sorted)
             free_slots == FreeSlots(S.portfolio, time_exit_symbols)
             extra_candidates ==
                 ExtraCandidates(S.portfolio, swap_pairs, day_sorted, free_slots)
             buys == SwapBuyOrders(swap_pairs, bars, dt)
                     \o EntryOrders(S.cash, extra_candidates, free_slots, dt)
         IN  { [S EXCEPT !.pending_orders =
                    @ \o SellOrders(sell_order, time_exit_symbols, dt) \o buys] :
               sell_order \in Orderings(SellSymbols(time_exit_symbols, swap_pairs)) }

----------------------------------------------------------------------------
(* backtest_midas                                                          *)

\* faulty variant: the planned exit filled at the open, without slippage
MidasExitOne_NoSlippage(F, i, dt, bars) ==
    LET pos == F.portfolio[i]
        sym == pos.symbol
    IN  IF pos.exit_planned_date # dt \/ ~bars[sym].has THEN F
        ELSE [F EXCEPT
                !.cash = @ + Down(pos.shares * bars[sym].open, COMMISSION_PM),
                !.trade_log = Append(@,
                    [exit_date |-> dt, symbol |-> sym, entry_date |-> pos.entry_date,
                     entry_price |-> pos.entry_price, exit_price |-> bars[sym].open,
                     reason |-> pos.exit_reason_planned,
                     days_held |-> pos.days_held]),
                !.portfolio = RemoveAt(@, i)]

\* 1) planned exits, i from len(portfolio) down to 1
MidasExitOne(F, i, dt, bars) ==
    LET pos == F.portfolio[i]
        sym == pos.symbol
    IN  IF pos.exit_planned_date # dt \/ ~bars[sym].has THEN F
        ELSE LET exit_price == Down(bars[sym].open, SLIPPAGE_SELL_PM)
                 revenue == pos.shares * exit_price
                 net_rev == Down(revenue, COMMISSION_PM)
             IN  [F EXCEPT
                    !.cash = @ + net_rev,
                    !.trade_log = Append(@,
                        [exit_date |-> dt, symbol |-> sym,
                         entry_date |-> pos.entry_date,
                         entry_price |-> pos.entry_price, exit_price |-> exit_price,
                         reason |-> pos.exit_reason_planned,
                         days_held |-> pos.days_held]),
                    !.portfolio = RemoveAt(@, i)]

RECURSIVE MidasExits(_, _, _, _)
MidasExits(F, i, dt, bars) ==
    IF i < 1 THEN F ELSE MidasExits(MidasExitOne(F, i, dt, bars), i - 1, dt, bars)

\* 2) stop-loss, no slippage on the stop price
MidasStopOne(F, i, dt, bars) ==
    LET pos == F.portfolio[i]
        sym == pos.symbol
        row == bars[sym]
        stop_level == Down(pos.entry_price, STOP_LOSS_PM)
        exit_price == IF row.open <= stop_level THEN row.open ELSE stop_level
        revenue == pos.shares * exit_price
        net_rev == Down(revenue, COMMISSION_PM)
    IN  IF ~row.has THEN [F EXCEPT !.portfolio[i].days_held = @ + 1]
        ELSE IF row.low <= stop_level
        THEN [F EXCEPT
                !.cash = @ + net_rev,
                !.trade_log = Append(@,
                    [exit_date |-> dt, symbol |-> sym, entry_date |-> pos.entry_date,
                     entry_price |-> pos.entry_price, exit_price |-> exit_price,
                     reason |-> "STOP_LOSS", days_held |-> pos.days_held]),
                !.portfolio = RemoveAt(@, i)]
        ELSE [F EXCEPT !.portfolio[i].days_held = @ + 1]

RECURSIVE MidasStops(_, _, _, _)
MidasStops(F, i, dt, bars) ==
    IF i < 1 THEN F ELSE MidasStops(MidasStopOne(F, i, dt, bars), i - 1, dt, bars)

\* 3) evening scheduling of one position; has_next: next_dt is not None
MidasSchedule(pos, dt, bars, has_next) ==
    LET top_symbols == SeqSet(Head_(DaySorted(bars), TOP_K))
        sym == pos.symbol
    IN  IF pos.exit_planned_date # 0 \/ ~has_next THEN pos
        ELSE IF pos.days_held >= HORIZON_DAYS
        THEN [pos EXCEPT !.exit_planned_date = dt + 1,
                         !.exit_reason_planned = "TIME_EXIT"]
        ELSE IF /\ bars[sym].has
                /\ bars[sym].close * 1000 >= pos.entry_price * (1000 + TAKE_PROFIT_PM)
                /\ sym \notin top_symbols
        THEN [pos EXCEPT !.exit_planned_date = dt + 1,
                         !.exit_reason_planned = "MODEL_TP"]
        ELSE pos

\* 4) entries: the loop over candidates, priced at tomorrow's open
RECURSIVE MidasEntries(_, _, _, _, _)
MidasEntries(F, free_slots, candidates, dt, next_bars) ==
    IF candidates = <<>> \/ free_slots <= 0 THEN F
    ELSE LET sym == Head(candidates)
             entry_price == Up(next_bars[sym].open, SLIPPAGE_BUY_PM)
             capital_per_trade == F.cash \div free_slots
             shares == capital_per_trade \div entry_price
             cost == shares * entry_price
             total_cost == Up(cost, COMMISSION_PM)
             rest == Tail(candidates)
         IN  IF sym \in SymbolsInPort(F.portfolio) \/ ~next_bars[sym].has
             THEN MidasEntries(F, free_slots, rest, dt, next_bars)
             ELSE IF shares <= 0 THEN MidasEntries(F, free_slots, rest, dt, next_bars)
             ELSE IF F.cash >= total_cost
             THEN MidasEntries(
                    [F EXCEPT
                       !.cash = @ - total_cost,
                       !.portfolio = Append(@,
                          [symbol |-> sym, entry_price |-> entry_price,
                           shares |-> shares, entry_date |-> dt + 1, days_held |-> 0,
                           exit_planned_date |-> 0, exit_reason_planned |-> ""])],
                    free_slots - 1, rest, dt, next_bars)
             ELSE MidasEntries(F, free_slots, rest, dt, next_bars)

\* one iteration of the day loop; next_bars: the rows of dates[idx + 1]
MidasStep(L, dt, bars, next_bars) ==
    LET has_next == dt < NumDays
        F0 == [cash |-> L.cash, portfolio |-> L.portfolio, trade_log |-> L.trade_log]
        F1 == MidasExits(F0, Len(F0.portfolio), dt, bars)
        F2 == MidasStops(F1, Len(F1.portfolio), dt, bars)
        F3 == [F2 EXCEPT !.portfolio =
                 [i \in 1..Len(F2.portfolio) |->
                    MidasSchedule(F2.portfolio[i], dt, bars, has_next)]]
        free_slots == MAX_POSITIONS - Len(F3.portfolio)
        F4 == IF free_slots > 0 /\ has_next
              THEN MidasEntries(F3, free_slots, Head_(DaySorted(bars), TOP_K),
                                dt, next_bars)
              ELSE F3
    IN  [cash |-> F4.cash, portfolio |-> F4.portfolio, pending_orders |-> <<>>,
         trade_log |-> F4.trade_log,
         equity |-> [date |-> dt, equity |-> F4.cash + PortVal(F4.portfolio, bars)]]

----------------------------------------------------------------------------
(* live_portfolio_manager                                                  *)

\* compute_stop_exit(entry_price, stop_pct, today_row)
compute_stop_exit(entry_price, stop_pm, today_row) ==
    LET stop_level == Down(entry_price, stop_pm)
    IN  IF today_row.open <= stop_level
        THEN [hit |-> TRUE, exit_price |-> today_row.open, reason |-> "STOP_LOSS"]
        ELSE IF today_row.low <= stop_level
        THEN [hit |-> TRUE, exit_price |-> stop_level, reason |-> "STOP_LOSS"]
        ELSE [hit |-> FALSE, exit_price |-> 0, reason |-> ""]

\* backtest_engine.compute_realistic_stop(entry_price, sl_pct, next_open,
\* next_low): the return of the stop, in thousandths, or None (hit = FALSE)
compute_realistic_stop(entry_price, sl_pm, next_open, next_low) ==
    LET stop_level == Down(entry_price, sl_pm)
    IN  IF next_open <= stop_level
        THEN [hit |-> TRUE, stop_ret |-> (next_open * 1000) \div entry_price - 1000]
        ELSE IF next_low <= stop_level
        THEN [hit |-> TRUE, stop_ret |-> (stop_level * 1000) \div entry_price - 1000]
        ELSE [hit |-> FALSE, stop_ret |-> 0]

\* 1.a) one pending BUY at today's open
LiveFillOne(order, F, today, bars) ==
    LET sym == order.symbol
        open_price == bars[sym].open
        shares == order.planned_capital \div open_price
        cost == shares * open_price
        total_cost == Up(cost, COMMISSION_PM)
    IN  IF ~bars[sym].has
        THEN [F EXCEPT !.new_pending = Append(@, order), !.nobar = @ \cup {order}]
        ELSE IF shares <= 0 THEN F
        ELSE IF total_cost > F.cash
        THEN [F EXCEPT !.new_pending = Append(@, order), !.nocash = @ \cup {order}]
        ELSE [F EXCEPT
                !.cash = @ - total_cost,
                !.min_cash = Min(@, F.cash - total_cost),
                !.portfolio = Append(@,
                    [symbol |-> sym, entry_price |-> open_price, shares |-> shares,
                     entry_date |-> today, days_held |-> 0]),
                !.trade_log = Append(@,
                    [entry_date |-> today, exit_date |-> 0, symbol |-> sym,
                     entry_price |-> open_price, exit_price |-> 0,
                     shares |-> shares, reason |-> "ENTRY", days_held |-> 0,
                     decision_date |-> order.decision_date]),
                !.filled = @ \cup {order}]

RECURSIVE LiveFillOrders(_, _, _, _)
LiveFillOrders(orders, F, today, bars) ==
    IF orders = <<>> THEN F
    ELSE LiveFillOrders(Tail(orders), LiveFillOne(Head(orders), F, today, bars),
                        today, bars)

\* 1.b) stop / time exit of one position, i from len(positions) down to 1
LiveExitOne(F, i, today, bars) ==
    LET pos == F.portfolio[i]
        sym == pos.symbol
        row == bars[sym]
        st == compute_stop_exit(pos.entry_price, STOP_LOSS_PM, row)
        time_exit == ~st.hit /\ pos.days_held >= HORIZON_DAYS
        exit_flag == st.hit \/ time_exit
        exit_price == IF time_exit THEN row.close ELSE st.exit_price
        reason == IF time_exit THEN "TIME_EXIT" ELSE st.reason
        revenue == pos.shares * exit_price
        net_revenue == Down(revenue, COMMISSION_PM)
    IN  IF ~row.has THEN [F EXCEPT !.portfolio[i].days_held = @ + 1]
        ELSE IF exit_flag
        THEN [F EXCEPT
                !.cash = @ + net_revenue,
                !.trade_log = Append(@,
                    [entry_date |-> pos.entry_date, exit_date |-> today,
                     symbol |-> sym, entry_price |-> pos.entry_price,
                     exit_price |-> exit_price, shares |-> pos.shares,
                     reason |-> reason, days_held |-> pos.days_held,
                     decision_date |-> today]),
                !.portfolio = RemoveAt(@, i)]
        ELSE [F EXCEPT !.portfolio[i].days_held = @ + 1]

RECURSIVE LiveExits(_, _, _, _)
LiveExits(F, i, today, bars) ==
    IF i < 1 THEN F ELSE LiveExits(LiveExitOne(F, i, today, bars), i - 1, today, bars)

\* daily_return, in thousandths
DailyReturn(total_equity, prev_equity) ==
    IF prev_equity > 0 THEN (total_equity * 1000) \div prev_equity - 1000 ELSE 0

\* one iteration of "for current_date in new_dates"
LiveSimDay(M, today, bars) ==
    LET F1 == LiveFillOrders(M.pending_orders, FillState(M), today, bars)
        F2 == LiveExits(F1, Len(F1.portfolio), today, bars)
        portfolio_value == PortVal(F2.portfolio, bars)
        total_equity == F2.cash + portfolio_value
    IN  [led |-> [M EXCEPT
                    !.cash = F2.cash,
                    !.portfolio = F2.portfolio,
                    !.pending_orders = F1.new_pending,
                    !.trade_log = F2.trade_log,
                    !.equity = [date |-> today, equity |-> total_equity,
                                cash |-> F2.cash, portfolio_value |-> portfolio_value,
                                daily_return |-> DailyReturn(total_equity, M.prev_equity),
                                n_positions |-> Len(F2.portfolio)],
                    !.equity_rows = Append(@, today),
                    !.prev_equity = total_equity,
                    !.last_date = today,
                    !.new_dates = Tail(@)],
         obs |-> [nobar |-> F1.nobar, nocash |-> F1.nocash, filled |-> F1.filled,
                  min_cash |-> F1.min_cash]]

\* faulty variant: a symbol with a pending buy is suggested again
LivePlan_PendingNotSkipped(M, ref_date, ref_data) ==
    LET current_syms == SymbolsInPort(M.portfolio)
        pending_syms == {M.pending_orders[k].symbol : k \in 1..Len(M.pending_orders)}
        used_slots == Cardinality(current_syms \cup pending_syms)
        free_slots == Max(0, MAX_POSITIONS - used_slots)
        picks == Head_(SelectIn(DaySorted(ref_data), Symbols \ current_syms),
                       free_slots)
    IN  IF free_slots > 0
        THEN [M EXCEPT !.pending_orders = @ \o
                [k \in 1..Len(picks) |->
                    [symbol |-> picks[k], planned_capital |-> M.cash \div free_slots,
                     decision_date |-> ref_date]]]
        ELSE M

\* faulty variant: the pending buys do not count as used slots
LivePlan_PendingNotCounted(M, ref_date, ref_data) ==
    LET current_syms == SymbolsInPort(M.portfolio)
        pending_syms == {M.pending_orders[k].symbol : k \in 1..Len(M.pending_orders)}
        free_slots == Max(0, MAX_POSITIONS - Cardinality(current_syms))
        picks == Head_(SelectIn(DaySorted(ref_data),
                                Symbols \ (current_syms \cup pending_syms)),
                       free_slots)
    IN  IF free_slots > 0
        THEN [M EXCEPT !.pending_orders = @ \o
                [k \in 1..Len(picks) |->
                    [symbol |-> picks[k], planned_capital |-> M.cash \div free_slots,
                     decision_date |-> ref_date]]]
        ELSE M

\* 2) tomorrow's buy suggestions from the rows of ref_date
LivePlan(M, ref_date, ref_data) ==
    LET current_syms == SymbolsInPort(M.portfolio)
        pending_syms == {M.pending_orders[k].symbol : k \in 1..Len(M.pending_orders)}
        used_slots == Cardinality(current_syms \cup pending_syms)
        free_slots == Max(0, MAX_POSITIONS - used_slots)
        picks == Head_(SelectIn(DaySorted(ref_data),
                                Symbols \ (current_syms \cup pending_syms)),
                       free_slots)
    IN  IF free_slots > 0
        THEN [M EXCEPT !.pending_orders = @ \o
                [k \in 1..Len(picks) |->
                    [symbol |-> picks[k], planned_capital |-> M.cash \div free_slots,
                     decision_date |-> ref_date]]]
        ELSE M

\* the state file is absent
NoFile == [exists |-> FALSE, truncated |-> FALSE]

\* faulty variant: new_dates taken from last_date on
LiveLoad_FromLastDate(file, n) ==
    LET state == IF file.exists THEN file
                 ELSE [exists |-> TRUE, truncated |-> FALSE, cash |-> INITIAL_CAPITAL, positions |-> <<>>,
                       pending_buys |-> <<>>, last_date |-> 0]
    IN  [cash |-> state.cash, portfolio |-> state.positions,
         pending_orders |-> state.pending_buys, trade_log |-> <<>>,
         equity |-> [date |-> 0, equity |-> 0],
         equity_rows |-> <<>>, prev_equity |-> state.cash,
         last_date |-> state.last_date,
         new_dates |-> IF state.last_date = 0 THEN <<>>
                       ELSE [k \in 1..(n - state.last_date + 1) |-> state.last_date + k - 1],
         ref_date |-> n]

\* load_state() and the choice of new_dates; n: the dates in the table
LiveLoad(file, n) ==
    LET state == IF file.exists THEN file
                 ELSE [exists |-> TRUE, truncated |-> FALSE, cash |-> INITIAL_CAPITAL, positions |-> <<>>,
                       pending_buys |-> <<>>, last_date |-> 0]
    IN  [cash |-> state.cash, portfolio |-> state.positions,
         pending_orders |-> state.pending_buys, trade_log |-> <<>>,
         equity |-> [date |-> 0, equity |-> 0],
         equity_rows |-> <<>>, prev_equity |-> state.cash,
         last_date |-> state.last_date,
         new_dates |-> IF state.last_date = 0 THEN <<>>
                       ELSE [k \in 1..(n - state.last_date) |-> state.last_date + k],
         ref_date |-> IF state.last_date = 0 \/ n > state.last_date
                      THEN n ELSE state.last_date]

\* the state written by save_state
LiveStateOf(M) ==
    [exists |-> TRUE, truncated |-> FALSE, cash |-> M.cash, positions |-> M.portfolio,
     pending_buys |-> M.pending_orders,
     last_date |-> IF M.last_date = 0 THEN M.ref_date ELSE M.last_date]

----------------------------------------------------------------------------
(* The state machines.                                                     *)

EmptyLedger ==
    [cash |-> INITIAL_CAPITAL, portfolio |-> <<>>, pending_orders |-> <<>>,
     trade_log |-> <<>>, equity |-> [date |-> 0, equity |-> 0]]

\* no live process is running: its memory is gone
IdleLedger == [cash |-> 0, portfolio |-> <<>>, pending_orders |-> <<>>,
               trade_log |-> <<>>, equity |-> [date |-> 0, equity |-> 0]]

NoObs == [nobar |-> {}, nocash |-> {}, filled |-> {}, min_cash |-> 0]
NoRows == [s \in Symbols |-> NoBar]
NoDisk == [state |-> NoFile, equity_csv |-> <<>>, trades_csv |-> <<>>]

\* The scores of the last date are never read (no planning on the last date).
InputsOf(dt) ==
    IF dt = NumDays
    THEN {b \in DayInputs : \A s \in Symbols : b[s].has => b[s].score = 20}
    ELSE DayInputs

\* Inputs with the scores tied to the symbol: A and B lead, C follows.
RankedInputs ==
    {b \in DayInputs : \A s \in Symbols :
        b[s].has => b[s].score = (IF s = "C" THEN 20 ELSE 60)}

Engines == {"swap", "midas", "live"}

InitOf(e) ==
    /\ engine = e
    /\ day = 0
    /\ obs = NoObs
    /\ disk = NoDisk
    /\ committed = <<>>
    /\ led = IF e = "live" THEN IdleLedger ELSE EmptyLedger
    /\ pc = IF e = "live" THEN "idle" ELSE "loop"
    /\ axis = IF e = "live" THEN 0 ELSE NumDays
    /\ IF e = "midas" THEN rows \in RankedInputs ELSE rows = NoRows

Init == \E e \in Engines : InitOf(e)

\* one iteration of the day loop of backtest_midas_swap.main
SwapDay ==
    /\ engine = "swap"
    /\ day < NumDays
    /\ \E bars \in InputsOf(day + 1) :
         LET R == SwapSettle(led, day + 1, bars)
         IN  /\ led' \in SwapPlan(R.led, day + 1, bars)
             /\ obs' = R.obs
    /\ day' = day + 1
    /\ UNCHANGED <<engine, axis, rows, disk, pc, committed>>

\* one iteration of the day loop of backtest_midas.main; rows holds the rows
\* of the date being processed, the rows of the next date are read ahead
MidasDay ==
    /\ engine = "midas"
    /\ day < NumDays
    /\ \E next_bars \in (IF day + 1 < NumDays THEN RankedInputs ELSE {NoRows}) :
         /\ led' = MidasStep(led, day + 1, rows, next_bars)
         /\ rows' = next_bars
    /\ day' = day + 1
    /\ UNCHANGED <<engine, axis, obs, disk, pc, committed>>

\* the table gains the rows of one more date (between runs)
MaxAhead == 2
LastDateOnDisk ==
    IF disk.state.exists /\ ~disk.state.truncated THEN disk.state.last_date ELSE 0
AppendDate ==
    /\ engine = "live"
    /\ pc = "idle"
    /\ axis < NumDays
    /\ axis - LastDateOnDisk < MaxAhead
    /\ axis' = axis + 1
    /\ UNCHANGED <<engine, day, led, obs, rows, disk, pc, committed>>

\* live_portfolio_manager.main up to the day loop ("Veri yok": no run on an
\* empty table; json.load raises on a truncated state file)
LiveStart ==
    /\ engine = "live"
    /\ pc = "idle"
    /\ axis >= 1
    /\ ~disk.state.truncated
    /\ led' = LiveLoad(disk.state, axis)
    /\ pc' = "sim"
    /\ obs' = NoObs
    /\ UNCHANGED <<engine, day, axis, rows, disk, committed>>

\* one iteration of the loop over new_dates
LiveDay ==
    /\ engine = "live"
    /\ pc = "sim"
    /\ led.new_dates # <<>>
    /\ \E bars \in RankedInputs :
         LET R == LiveSimDay(led, Head(led.new_dates), bars)
         IN  /\ led' = R.led
             /\ obs' = R.obs
             /\ rows' = bars
    /\ UNCHANGED <<engine, day, axis, disk, pc, committed>>

\* the rows of ref_date: those of the last simulated date, or on the first
\* run the rows of the latest date of the table
RefData == IF led.last_date = 0 THEN RankedInputs ELSE {rows}

\* the rest of main in one piece: the suggestions, save_state, the two logs
LiveFinish ==
    /\ engine = "live"
    /\ pc = "sim"
    /\ led.new_dates = <<>>
    /\ \E ref_data \in RefData :
         LET M == LivePlan(led, led.ref_date, ref_data)
         IN  /\ disk' = [state |-> LiveStateOf(M),
                         equity_csv |-> disk.equity_csv \o M.equity_rows,
                         trades_csv |-> disk.trades_csv \o M.trade_log]
             /\ rows' = ref_data
             /\ committed' = committed \o M.equity_rows
    /\ led' = IdleLedger
    /\ pc' = "idle"
    /\ UNCHANGED <<engine, day, axis, obs>>

Next == SwapDay \/ MidasDay \/ AppendDate \/ LiveStart \/ LiveDay \/ LiveFinish

Spec == Init /\ [][Next]_vars

\* backtest_midas_swap alone
InitSwap == InitOf("swap")
NextSwap == SwapDay
SpecSwap == InitSwap /\ [][NextSwap]_vars

\* backtest_midas_swap on a table of two symbols whose bars may also dip
\* below the stop level within the day (open 3, low 2, close 2.5); rows keeps
\* the rows of the date just processed
DipShapes == Shapes \cup {[open |-> Milli(3), low |-> Milli(2), close |-> 2500]}
DipBars == {NoBar} \cup
    {[has |-> TRUE, open |-> sh.open, low |-> sh.low, close |-> sh.close, score |-> sc] : sh \in DipShapes, sc \in Scores}
DipInputsOf(dt) ==
    {b \in [Symbols -> DipBars] :
        /\ ~b["C"].has /\ ~b["D"].has
        /\ dt = NumDays => \A s \in Symbols : b[s].has => b[s].score = 20}

SwapDayDip ==
    /\ engine = "swap"
    /\ day < NumDays
    /\ \E bars \in DipInputsOf(day + 1) :
         LET R == SwapSettle(led, day + 1, bars)
         IN  /\ led' \in SwapPlan(R.led, day + 1, bars)
             /\ obs' = R.obs
             /\ rows' = bars
    /\ day' = day + 1
    /\ UNCHANGED <<engine, axis, disk, pc, committed>>

NextSwapDip == SwapDayDip
SpecSwapDip == InitSwap /\ [][NextSwapDip]_vars

\* two runs of backtest_midas_swap over the same table, side by side: led.a
\* and led.b are the ledgers of the two processes; each process iterates its
\* set sell_symbols in the order its own string hashing gives
InitTwin ==
    /\ engine = "twin"
    /\ day = 0
    /\ obs = NoObs
    /\ disk = NoDisk
    /\ committed = <<>>
    /\ led = [a |-> EmptyLedger, b |-> EmptyLedger]
    /\ pc = "loop"
    /\ axis = NumDays
    /\ rows = NoRows

TwinDay ==
    /\ engine = "twin"
    /\ day < NumDays
    /\ \E bars \in RankedInputs :
         LET Ra == SwapSettle(led.a, day + 1, bars)
             Rb == SwapSettle(led.b, day + 1, bars)
         IN  /\ \E x \in SwapPlan(Ra.led, day + 1, bars),
                   y \in SwapPlan(Rb.led, day + 1, bars) : led' = [a |-> x, b |-> y]
             /\ obs' = Ra.obs
    /\ day' = day + 1
    /\ UNCHANGED <<engine, axis, rows, disk, pc, committed>>

NextTwin == TwinDay
SpecTwin == InitTwin /\ [][NextTwin]_vars

\* backtest_midas_swap started with other settings of INITIAL_CAPITAL, from
\* 8.000 to 8.200 in steps of 0.020
CapitalSteps == 10
CapitalChoices == {Milli(8) + 20 * k : k \in 0..CapitalSteps}
InitSizing ==
    /\ engine = "swap"
    /\ day = 0
    /\ obs = NoObs
    /\ disk = NoDisk
    /\ committed = <<>>
    /\ \E c \in CapitalChoices : led = [EmptyLedger EXCEPT !.cash = c]
    /\ pc = "loop"
    /\ axis = NumDays
    /\ rows = NoRows

SpecSizing == InitSizing /\ [][NextSwapDip]_vars

\* backtest_midas_swap on a table that also carries the regime indicator
\* macro_bist100_distance_ma200 of each date (one value per date, in percent);
\* backtest_midas_swap.main reads no such column. obs keeps the value of the
\* date just processed.
HARD_BEAR_THRESHOLD_PCT == -2
RegimeValues == {HARD_BEAR_THRESHOLD_PCT - 3, HARD_BEAR_THRESHOLD_PCT + 5}
SwapDayRegime ==
    /\ engine = "swap"
    /\ day < NumDays
    /\ \E bars \in RankedInputs, regime_val \in RegimeValues :
         LET R == SwapSettle(led, day + 1, bars)
         IN  /\ led' \in SwapPlan(R.led, day + 1, bars)
             /\ obs' = [nobar |-> R.obs.nobar, nocash |-> R.obs.nocash,
                        filled |-> R.obs.filled, min_cash |-> R.obs.min_cash,
                        regime_val |-> regime_val]
    /\ day' = day + 1
    /\ UNCHANGED <<engine, axis, rows, disk, pc, committed>>

NextSwapRegime == SwapDayRegime
SpecSwapRegime == InitSwap /\ [][NextSwapRegime]_vars

\* backtest_midas_swap on a flat table: every symbol has a bar on every date,
\* open = low = close = one price per symbol, and all rows carry one score;
\* rows is that day's table, the same on every date
FlatPrices == {Milli(2), 2500, Milli(3)}
FlatTables ==
    {b \in [Symbols -> [has : {TRUE}, open : FlatPrices, low : FlatPrices, close : FlatPrices, score : Scores]] :
        /\ \A s \in Symbols : b[s].open = b[s].low /\ b[s].low = b[s].close
        /\ \A s, t \in Symbols : b[s].score = b[t].score}

InitFlat ==
    /\ engine = "swap"
    /\ day = 0
    /\ obs = NoObs
    /\ disk = NoDisk
    /\ committed = <<>>
    /\ led = EmptyLedger
    /\ pc = "loop"
    /\ axis = NumDays
    /\ rows \in FlatTables

SwapDayFlat ==
    /\ engine = "swap"
    /\ day < NumDays
    /\ LET R == SwapSettle(led, day + 1, rows)
       IN  /\ led' \in SwapPlan(R.led, day + 1, rows)
           /\ obs' = R.obs
    /\ day' = day + 1
    /\ UNCHANGED <<engine, axis, rows, disk, pc, committed>>

NextFlat == SwapDayFlat
SpecFlat == InitFlat /\ [][NextFlat]_vars

\* backtest_midas_swap on a table of two symbols in which a row may carry
\* price_open = 0. int(capital / entry_gross) then divides by zero: the
\* quotient is inf (or nan) and int() raises, or the division itself raises;
\* either way main ends with an exception (pc = "raised").
ZeroOpenShape == [open |-> 0, low |-> 0, close |-> Milli(2)]
BadBars == {NoBar} \cup
    {[has |-> TRUE, open |-> sh.open, low |-> sh.low, close |-> sh.close, score |-> sc] : sh \in Shapes \cup {ZeroOpenShape}, sc \in Scores}
BadInputsOf(dt) ==
    {b \in [Symbols -> BadBars] :
        /\ ~b["C"].has /\ ~b["D"].has
        /\ dt = NumDays => \A s \in Symbols : b[s].has => b[s].score = 20}

\* a BUY due on dt meets a row whose entry_gross is 0
Raises(L, dt, bars) ==
    \E k \in 1..Len(L.pending_orders) :
        LET order == L.pending_orders[k]
        IN  /\ order.target_date = dt
            /\ bars[order.symbol].has
            /\ order.type = "BUY"
            /\ Up(bars[order.symbol].open, SLIPPAGE_BUY_PM) = 0

SwapDayBad ==
    /\ engine = "swap"
    /\ pc = "loop"
    /\ day < NumDays
    /\ \E bars \in BadInputsOf(day + 1) :
         /\ rows' = bars
         /\ IF Raises(led, day + 1, bars)
            THEN /\ pc' = "raised"
                 /\ UNCHANGED <<led, obs, day>>
            ELSE LET R == SwapSettle(led, day + 1, bars)
                 IN  /\ led' \in SwapPlan(R.led, day + 1, bars)
                     /\ obs' = R.obs
                     /\ day' = day + 1
                     /\ pc' = pc
    /\ UNCHANGED <<engine, axis, disk, committed>>

NextSwapBad == SwapDayBad
SpecSwapBad == InitSwap /\ [][NextSwapBad]_vars

\* The three stop evaluators applied to one bar: led holds the entry price
\* and the bar (open and low on a grid of 0.100 from 1.800 on, any order of
\* the two), obs the three results.
StopSteps == 14
StopGrid == {1800 + 100 * k : k \in 0..StopSteps}
StopEntries == {Milli(2), Milli(3)}
InitStop ==
    /\ engine = "stop"
    /\ day = 0
    /\ obs = NoObs
    /\ disk = NoDisk
    /\ committed = <<>>
    /\ led \in [entry_price : StopEntries, row : [open : StopGrid, low : StopGrid]]
    /\ pc = "loop"
    /\ axis = 0
    /\ rows = NoRows

EvalStops ==
    /\ engine = "stop"
    /\ pc = "loop"
    /\ obs' = [swap |-> compute_stop_loss(led.entry_price, led.row),
               live |-> compute_stop_exit(led.entry_price, STOP_LOSS_PM, led.row),
               engine |-> compute_realistic_stop(led.entry_price, STOP_LOSS_PM,
                                                 led.row.open, led.row.low)]
    /\ pc' = "done"
    /\ UNCHANGED <<engine, day, led, axis, rows, disk, committed>>

NextStop == EvalStops
SpecStop == InitStop /\ [][NextStop]_vars

\* backtest_midas_swap on the wide table: four symbols at one flat price, a
\* symbol may lack a row on a date. A and B score high (0.60) or low, C and D
\* always 0.20; the low score of A (0.10) lies exactly SWAP_GAP above the low
\* score of B (0.05), two values whose binary64 difference is 0.05. rows keeps
\* the rows of the date just processed and obs the swap_pairs planned on it.
WideLow(s) == IF s = "A" THEN 2 * SWAP_GAP_PCT ELSE IF s = "B" THEN SWAP_GAP_PCT ELSE 20
WideBarsOf(s) == {NoBar} \cup
    {[has |-> TRUE, open |-> Milli(2), low |-> Milli(2), close |-> Milli(2), score |-> sc] :
        sc \in {WideLow(s)} \cup (IF s \in {"A", "B"} THEN {60} ELSE {})}
\* The tables of each date. Nothing is planned on the last date and its
\* scores are never read: there every symbol has a row, with its low score.
WideTables ==
    [dt \in 1..NumDays |->
        {b \in [Symbols -> UNION {WideBarsOf(s) : s \in Symbols}] :
            /\ \A s \in Symbols : b[s] \in WideBarsOf(s)
            /\ dt = NumDays => \A s \in Symbols : b[s].has /\ b[s].score = WideLow(s)}]
WideInputsOf(dt) == WideTables[dt]

SwapDayWide ==
    /\ engine = "swap"
    /\ day < NumDays
    /\ \E bars \in WideInputsOf(day + 1) :
         LET R == SwapSettle(led, day + 1, bars)
         IN  /\ led' \in SwapPlan(R.led, day + 1, bars)
             /\ obs' = [nobar |-> R.obs.nobar, nocash |-> R.obs.nocash,
                        filled |-> R.obs.filled, min_cash |-> R.obs.min_cash,
                        swap_pairs |-> IF day + 1 = NumDays THEN <<>>
                                       ELSE SwapPairsOf(R.led.portfolio, bars,
                                                        DaySorted(bars))]
             /\ rows' = bars
    /\ day' = day + 1
    /\ UNCHANGED <<engine, axis, disk, pc, committed>>

NextSwapWide == SwapDayWide
SpecSwapWide == InitSwap /\ [][NextSwapWide]_vars

\* the two backtests whose fills carry slippage, each with the rows of the
\* fill day in view: backtest_midas_swap on the table with dips, and
\* backtest_midas
InitFills == InitOf("swap") \/ InitOf("midas")
NextFills == SwapDayDip \/ MidasDay
SpecFills == InitFills /\ [][NextFills]_vars

\* backtest_midas on a table with bars that close above their open, so that a
\* take-profit exit is planned early enough to meet a date without bar
GapBarsOf(s) == {NoBar} \cup {[has |-> TRUE, open |-> Milli(2), low |-> Milli(2), close |-> c, score |-> (IF s = "C" THEN 20 ELSE 60)] : c \in {Milli(2), Milli(3)}}
GapInputs == {b \in [Symbols -> UNION {GapBarsOf(s) : s \in Symbols}] : (\A s \in Symbols : b[s] \in GapBarsOf(s)) /\ ~b["D"].has}

InitGap ==
    /\ engine = "midas"
    /\ day = 0
    /\ obs = NoObs
    /\ disk = NoDisk
    /\ committed = <<>>
    /\ led = EmptyLedger
    /\ pc = "loop"
    /\ axis = NumDays
    /\ rows \in GapInputs

MidasDayGap ==
    /\ engine = "midas"
    /\ day < NumDays
    /\ \E next_bars \in (IF day + 1 < NumDays THEN GapInputs ELSE {NoRows}) :
         /\ led' = MidasStep(led, day + 1, rows, next_bars)
         /\ rows' = next_bars
    /\ day' = day + 1
    /\ UNCHANGED <<engine, axis, obs, disk, pc, committed>>

SpecMidasGap == InitGap /\ [][MidasDayGap]_vars

\* live_portfolio_manager alone, every run complete
InitLive == InitOf("live")
NextLive == AppendDate \/ LiveStart \/ LiveDay \/ LiveFinish
SpecLive == InitLive /\ [][NextLive]_vars

\* The end of main step by step. save_state opens the file for writing, which
\* empties it, and then dumps the state; the two logs are rewritten after it.
LiveSave ==
    /\ engine = "live"
    /\ pc = "sim"
    /\ led.new_dates = <<>>
    /\ \E ref_data \in RefData :
         LET M == LivePlan(led, led.ref_date, ref_data)
         IN  /\ led' = M
             /\ disk' = [disk EXCEPT !.state = LiveStateOf(M)]
             /\ rows' = ref_data
             /\ committed' = committed \o M.equity_rows
    /\ pc' = "saved"
    /\ UNCHANGED <<engine, day, axis, obs>>

LiveWriteEquity ==
    /\ engine = "live"
    /\ pc = "saved"
    /\ disk' = [disk EXCEPT !.equity_csv = @ \o led.equity_rows]
    /\ pc' = "equity_written"
    /\ UNCHANGED <<engine, day, led, obs, axis, rows, committed>>

LiveWriteTrades ==
    /\ engine = "live"
    /\ pc = "equity_written"
    /\ disk' = [disk EXCEPT !.trades_csv = @ \o led.trade_log]
    /\ led' = IdleLedger
    /\ pc' = "idle"
    /\ UNCHANGED <<engine, day, obs, axis, rows, committed>>

\* the process is killed between two steps: its memory is lost, the files stay
Crash ==
    /\ engine = "live"
    /\ pc # "idle"
    /\ led' = IdleLedger
    /\ pc' = "idle"
    /\ UNCHANGED <<engine, day, obs, axis, rows, disk, committed>>

\* the process is killed inside save_state, after open(STATE_PATH, "w") and
\* before json.dump has written the whole state
CrashInSave ==
    /\ engine = "live"
    /\ pc = "sim"
    /\ led.new_dates = <<>>
    /\ disk' = [disk EXCEPT !.state = [exists |-> TRUE, truncated |-> TRUE]]
    /\ led' = IdleLedger
    /\ pc' = "idle"
    /\ UNCHANGED <<engine, day, obs, axis, rows, committed>>

\* live_portfolio_manager with runs that may be interrupted. A run started
\* after an interruption reads the table again; the rows it reads are chosen
\* anew (the table is rebuilt by the pipeline before every run).
NextLiveCrash ==
    \/ AppendDate \/ LiveStart \/ LiveDay
    \/ LiveSave \/ LiveWriteEquity \/ LiveWriteTrades
    \/ Crash \/ CrashInSave
SpecLiveCrash == InitLive /\ [][NextLiveCrash]_vars

\* backtest_midas_swap and live_portfolio_manager side by side on the same
\* table: each date's rows are given to one iteration of the backtest's day
\* loop (ledger led) and to one complete run of the live manager over the
\* table up to that date (ledger disk.state, logs in disk)
PairDay ==
    /\ engine = "pair"
    /\ day < NumDays
    /\ \E bars \in RankedInputs :
         LET R == SwapSettle(led, day + 1, bars)
             M0 == LiveLoad(disk.state, day + 1)
             M1 == IF M0.new_dates = <<>> THEN M0
                   ELSE LiveSimDay(M0, day + 1, bars).led
             M2 == LivePlan(M1, M1.ref_date, bars)
         IN  /\ led' \in SwapPlan(R.led, day + 1, bars)
             /\ obs' = R.obs
             /\ disk' = [state |-> LiveStateOf(M2),
                         equity_csv |-> disk.equity_csv \o M2.equity_rows,
                         trades_csv |-> disk.trades_csv \o M2.trade_log]
    /\ day' = day + 1
    /\ UNCHANGED <<engine, axis, rows, pc, committed>>

InitPair == InitOf("pair")
NextPair == PairDay
SpecPair == InitPair /\ [][NextPair]_vars

----------------------------------------------------------------------------
(* backend/services/pipeline_service.py: PipelineService on the event loop *)
(* of the API server. A coroutine runs without interruption from one await *)
(* to the next; led holds the fields of the service, the requests, the     *)
(* subprocesses and the monitor tasks. A subprocess and its monitor task   *)
(* carry the number of the request that started them; 0 stands for None.   *)
(* Of PipelineStatus only the field status is kept.                        *)

MaxRequests == 3
Requests == 1..MaxRequests
ScriptTypes == {"pipeline", "portfolio_manager", "other"}

InitService ==
    /\ engine = "service"
    /\ day = 0
    /\ obs = NoObs
    /\ disk = NoDisk
    /\ committed = <<>>
    /\ pc = "serve"
    /\ axis = 0
    /\ rows = NoRows
    /\ led = [current_process |-> 0, status |-> "idle", status_file |-> "",
              job_id |-> 0, log_file_path |-> 0,
              request |-> [r \in Requests |-> [at |-> "new", reply |-> ""]],
              proc |-> [r \in Requests |-> "none"],
              monitor |-> [r \in Requests |-> [at |-> "none", reads |-> 0, waits |-> 0]]]

\* run_pipeline from its call up to "await asyncio.create_subprocess_exec"
run_pipeline(r) ==
    /\ engine = "service"
    /\ led.request[r].at = "new"
    /\ r > 1 => led.request[r - 1].at # "new"
    /\ \E script_type \in ScriptTypes, exists \in BOOLEAN :
         led' = IF led.current_process # 0
                THEN [led EXCEPT !.request[r] =
                        [at |-> "done", reply |-> "A pipeline is already running"]]
                ELSE IF script_type = "other"
                THEN [led EXCEPT !.request[r] =
                        [at |-> "done", reply |-> "Unknown script type"]]
                ELSE IF ~exists
                THEN [led EXCEPT !.request[r] =
                        [at |-> "done", reply |-> "Script not found"]]
                ELSE [led EXCEPT !.log_file_path = r,
                                 !.job_id = r,
                                 !.status = "running",
                                 !.status_file = "running",
                                 !.request[r] = [at |-> "spawn", reply |-> ""]]
    /\ UNCHANGED <<engine, day, obs, axis, rows, disk, pc, committed>>

\* run_pipeline after the await: the subprocess exists, or the call raised
run_pipeline_resume(r) ==
    /\ engine = "service"
    /\ led.request[r].at = "spawn"
    /\ \E raised \in BOOLEAN :
         led' = IF raised
                THEN [led EXCEPT !.status = "failed",
                                 !.status_file = "failed",
                                 !.request[r] =
                                    [at |-> "done", reply |-> "Failed to start pipeline"]]
                ELSE [led EXCEPT !.current_process = r,
                                 !.proc[r] = "alive",
                                 !.monitor[r].at = "start",
                                 !.request[r] = [at |-> "done", reply |-> "started"]]
    /\ UNCHANGED <<engine, day, obs, axis, rows, disk, pc, committed>>

\* the except and finally clauses of _monitor_process
MonitorEnd(S, r, status) ==
    [S EXCEPT !.status = status, !.status_file = status,
              !.current_process = 0, !.monitor[r].at = "done"]

\* _monitor_process from its start up to the await of the two stream readers
monitor_start(r) ==
    /\ engine = "service"
    /\ led.monitor[r].at = "start"
    /\ led' = IF led.current_process = 0 \/ led.log_file_path = 0
              THEN [led EXCEPT !.monitor[r].at = "done"]
              ELSE [led EXCEPT !.monitor[r].at = "reading",
                               !.monitor[r].reads = led.current_process]
    /\ UNCHANGED <<engine, day, obs, axis, rows, disk, pc, committed>>

\* both streams are at their end: "await self.current_process.wait()"
monitor_streams_end(r) ==
    /\ engine = "service"
    /\ led.monitor[r].at = "reading"
    /\ led.proc[led.monitor[r].reads] # "alive"
    /\ led' = IF led.current_process = 0
              THEN MonitorEnd(led, r, "failed")
              ELSE [led EXCEPT !.monitor[r].at = "waiting",
                               !.monitor[r].waits = led.current_process]
    /\ UNCHANGED <<engine, day, obs, axis, rows, disk, pc, committed>>

\* wait() has returned: the returncode of self.current_process decides
monitor_wait_end(r) ==
    /\ engine = "service"
    /\ led.monitor[r].at = "waiting"
    /\ led.proc[led.monitor[r].waits] # "alive"
    /\ led' = IF led.current_process # 0 /\ led.proc[led.current_process] = "exit0"
              THEN MonitorEnd(led, r, "completed")
              ELSE MonitorEnd(led, r, "failed")
    /\ UNCHANGED <<engine, day, obs, axis, rows, disk, pc, committed>>

\* a script ends, with returncode 0 or not
ScriptExit(r) ==
    /\ engine = "service"
    /\ led.proc[r] = "alive"
    /\ \E code \in {"exit0", "exit1"} : led' = [led EXCEPT !.proc[r] = code]
    /\ UNCHANGED <<engine, day, obs, axis, rows, disk, pc, committed>>

NextService ==
    \E r \in Requests :
       \/ run_pipeline(r)
       \/ run_pipeline_resume(r)
       \/ monitor_start(r)
       \/ monitor_streams_end(r)
       \/ monitor_wait_end(r)
       \/ ScriptExit(r)

SpecService == InitService /\ [][NextService]_vars

----------------------------------------------------------------------------
(* The weight-based backtests: models/backtest_v4, models_2.0/             *)
(* backtest_triple_barier and models_2.0/backtest_engine. Weights, returns *)
(* and the risk multiplier are in thousandths, products of a weight and a  *)
(* return in millionths. A table is the rows of one date in descending     *)
(* score order; led keeps the two output lists and the running equity.     *)

WeightDays == 2
V4_RET_CAP_PM == 500
V4_STOP_LOSS_PM == -30
TB_RET_CAP_PM == 500
ENGINE_RET_CAP_PM == 100
ROUNDTRIP_COST_PPM == 1000
MAX_WEIGHT_PM == 200

Clip(x, cap) == Max(0 - cap, Min(x, cap))
Dot(a, b) == SumSeq([i \in 1..Len(a) |-> a[i] * b[i]])

\* vol.clip(lower=1e-6); w = 1.0 / vol; w = w / w.sum()
InverseVolWeights(vols) ==
    LET inv == [i \in 1..Len(vols) |-> 900 \div Max(vols[i], 1)]
    IN  [i \in 1..Len(vols) |-> (inv[i] * 1000) \div SumSeq(inv)]

\* faulty variant: the weights are normalised again after the cap
CapWeights_Renormalised(w) ==
    LET c == [i \in 1..Len(w) |-> Min(w[i], MAX_WEIGHT_PM)]
    IN  [i \in 1..Len(w) |-> (c[i] * 1000) \div SumSeq(c)]

\* w = np.minimum(w, MAX_WEIGHT), not normalised again
CapWeights(w) == [i \in 1..Len(w) |-> Min(w[i], MAX_WEIGHT_PM)]

\* the regime branches: the day is passed over ...
HardBear(regime) == regime.has /\ regime.val <= HARD_BEAR_THRESHOLD_PCT

\* faulty variant: a mild bear day keeps the full risk
risk_multiplier_Full(regime) == 1000

\* ... or taken with half or full risk
risk_multiplier(regime) == IF regime.has /\ regime.val < 0 THEN 500 ELSE 1000

\* one iteration of the day loop of backtest_v4.main
BacktestV4Step(L, dt, table, regime) ==
    LET rows_k == Head_(table, TOP_K)
        n == Len(rows_k)
        w == InverseVolWeights([i \in 1..n |-> rows_k[i].vol])
        fwd_cap == [i \in 1..n |-> Clip(rows_k[i].fut, V4_RET_CAP_PM)]
        fwd_sl == [i \in 1..n |-> Max(fwd_cap[i], V4_STOP_LOSS_PM)]
        rm == risk_multiplier(regime)
        gross_ret == (Dot(w, fwd_sl) * rm) \div 1000
        net_ret == gross_ret - (ROUNDTRIP_COST_PPM * rm) \div 1000
        mkt_ret == (SumSeq([i \in 1..n |-> Clip(rows_k[i].mkt, V4_RET_CAP_PM)]) * 1000) \div n
        w_rm == [i \in 1..n |-> (w[i] * rm) \div 1000]
        eff_w == IF SumSeq(w_rm) > 0
                 THEN [i \in 1..n |-> (w_rm[i] * 1000) \div SumSeq(w_rm)]
                 ELSE w_rm
    IN  IF n < TOP_K \/ HardBear(regime) THEN L
        ELSE [L EXCEPT
                !.records = Append(@,
                    [date |-> dt, net_ret |-> net_ret, gross_ret |-> gross_ret,
                     market_ret |-> mkt_ret, alpha_ret |-> net_ret - mkt_ret,
                     hit_rate |-> SumSeq([i \in 1..n |-> IF fwd_sl[i] > 0 THEN w[i] ELSE 0]),
                     regime_value |-> regime, risk_multiplier |-> rm]),
                !.trade_rows = @ \o
                    [i \in 1..n |->
                        [date |-> dt, symbol |-> i, weight_raw |-> w[i],
                         weight_effective |-> eff_w[i], future_ret_cap |-> fwd_cap[i],
                         future_ret_after_sl |-> fwd_sl[i], regime_value |-> regime,
                         risk_multiplier |-> rm]]]

\* one iteration of the day loop of backtest_triple_barier.main
TripleBarrierStep(L, dt, table, regime) ==
    LET rows_k == Head_(table, TOP_K)
        n == Len(rows_k)
        w == InverseVolWeights([i \in 1..n |-> rows_k[i].vol])
        fut_eff == [i \in 1..n |-> Clip(rows_k[i].fut, TB_RET_CAP_PM)]
        risk == risk_multiplier(regime)
        gross == (Dot(w, fut_eff) * risk) \div 1000
        net == gross - (ROUNDTRIP_COST_PPM * risk) \div 1000
        mkt_ret == (SumSeq([i \in 1..n |-> rows_k[i].mkt]) * 1000) \div n
    IN  IF Len(table) = 0 \/ HardBear(regime) THEN L
        ELSE [L EXCEPT
                !.records = Append(@,
                    [date |-> dt, net_ret |-> net, gross_ret |-> gross,
                     market_ret |-> mkt_ret,
                     alpha_ret |-> net - Clip(mkt_ret, TB_RET_CAP_PM * 1000),
                     hit_rate |-> SumSeq([i \in 1..n |-> IF fut_eff[i] > 0 THEN w[i] ELSE 0]),
                     regime_value |-> regime, risk_multiplier |-> risk]),
                !.trade_rows = @ \o
                    [i \in 1..n |->
                        [date |-> dt, symbol |-> i, weight |-> w[i],
                         future_raw |-> rows_k[i].fut, future_eff |-> fut_eff[i]]]]

\* one iteration of the day loop of backtest_engine.main
EngineStep(L, dt, table) ==
    LET rows_k == Head_(table, TOP_K)
        n == Len(rows_k)
        w == CapWeights(InverseVolWeights([i \in 1..n |-> rows_k[i].vol]))
        stop(i) == compute_realistic_stop(rows_k[i].entry_price, STOP_LOSS_PM, rows_k[i].nxt.open, rows_k[i].nxt.low)
        ret(i) == Clip(IF stop(i).hit THEN stop(i).stop_ret
                       ELSE (rows_k[i].nxt.close * 1000) \div rows_k[i].entry_price - 1000,
                       ENGINE_RET_CAP_PM)
        traded == SelectSeq([i \in 1..n |-> i], LAMBDA i : rows_k[i].nxt.has)
        total_ret == SumSeq([k \in 1..Len(traded) |-> ret(traded[k]) * w[traded[k]]])
        market_ret == (SumSeq([i \in 1..n |-> rows_k[i].mkt]) * 1000) \div n
        equity == (L.equity * (1000000 + total_ret)) \div 1000000
        max_equity == Max(L.max_equity, equity)
    IN  IF Len(table) = 0 THEN L
        ELSE [L EXCEPT
                !.equity = equity,
                !.max_equity = max_equity,
                !.records = Append(@,
                    [date |-> dt, equity |-> equity,
                     drawdown |-> (equity * 1000) \div max_equity - 1000,
                     pnl |-> total_ret, market_ret |-> market_ret,
                     alpha_ret |-> total_ret - market_ret,
                     weights |-> w]),
                !.trade_rows = @ \o
                    [k \in 1..Len(traded) |->
                        [date |-> dt, symbol |-> traded[k], weight |-> w[traded[k]],
                         entry |-> rows_k[traded[k]].entry_price,
                         exit |-> rows_k[traded[k]].nxt.close,
                         stop_hit |-> stop(traded[k]).hit, return |-> ret(traded[k])]]]

\* the rows of the tables: volatility, future return and market return of a
\* symbol; for backtest_engine its close and its row of the next date
ScoreRows == {[vol |-> v, fut |-> f, mkt |-> 10] : v \in {10, 90}, f \in {-80, 60}}
EngineRows == {[vol |-> v, entry_price |-> Milli(2), mkt |-> 10, nxt |-> x] : v \in {10, 90}, x \in {NoBar, [has |-> TRUE, open |-> 2000, low |-> 2000, close |-> 2000, score |-> 0], [has |-> TRUE, open |-> 2000, low |-> 1800, close |-> 1900, score |-> 0]}}
TablesOf(R) == UNION {[1..n -> R] : n \in 0..(TOP_K + 1)}
RegimeColumn == {[has |-> FALSE, val |-> 0]} \cup {[has |-> TRUE, val |-> v] : v \in {HARD_BEAR_THRESHOLD_PCT - 1, HARD_BEAR_THRESHOLD_PCT, -1, 0, 1}}

InitWeighted ==
    /\ engine \in {"v4", "triple", "engine"}
    /\ day = 0
    /\ obs = NoObs
    /\ disk = NoDisk
    /\ committed = <<>>
    /\ pc = "loop"
    /\ axis = WeightDays
    /\ rows = NoRows
    /\ led = [records |-> <<>>, trade_rows |-> <<>>, equity |-> 1000, max_equity |-> 1000]

\* obs keeps the table and the regime value of the date just processed
BacktestV4Day ==
    /\ engine = "v4"
    /\ day < WeightDays
    /\ \E table \in TablesOf(ScoreRows), regime \in RegimeColumn :
         /\ led' = BacktestV4Step(led, day + 1, table, regime)
         /\ obs' = [table |-> table, regime |-> regime]
    /\ day' = day + 1
    /\ UNCHANGED <<engine, axis, rows, disk, pc, committed>>

TripleBarrierDay ==
    /\ engine = "triple"
    /\ day < WeightDays
    /\ \E table \in TablesOf(ScoreRows), regime \in {r \in RegimeColumn : r.has} :
         /\ led' = TripleBarrierStep(led, day + 1, table, regime)
         /\ obs' = [table |-> table, regime |-> regime]
    /\ day' = day + 1
    /\ UNCHANGED <<engine, axis, rows, disk, pc, committed>>

EngineDay ==
    /\ engine = "engine"
    /\ day < WeightDays
    /\ \E table \in TablesOf(EngineRows) :
         /\ led' = EngineStep(led, day + 1, table)
         /\ obs' = [table |-> table, regime |-> [has |-> FALSE, val |-> 0]]
    /\ day' = day + 1
    /\ UNCHANGED <<engine, axis, rows, disk, pc, committed>>

NextWeighted == BacktestV4Day \/ TripleBarrierDay \/ EngineDay
SpecWeighted == InitWeighted /\ [][NextWeighted]_vars

----------------------------------------------------------------------------
(* The ledger as the properties read it: the process's memory while a      *)
(* program runs, the state file of the live manager between runs.          *)

Cash == IF engine = "live" /\ pc = "idle"
        THEN (IF disk.state.exists /\ ~disk.state.truncated
              THEN disk.state.cash ELSE INITIAL_CAPITAL)
        ELSE led.cash

Positions == IF engine = "live" /\ pc = "idle"
             THEN (IF disk.state.exists /\ ~disk.state.truncated
                   THEN disk.state.positions ELSE <<>>)
             ELSE led.portfolio

Pending == IF engine = "live" /\ pc = "idle"
           THEN (IF disk.state.exists /\ ~disk.state.truncated
                 THEN disk.state.pending_buys ELSE <<>>)
           ELSE led.pending_orders

\* every trade record so far, oldest first
TradeLog == IF engine = "live" THEN disk.trades_csv \o led.trade_log ELSE led.trade_log

IsBuy(order) == engine = "live" \/ order.type = "BUY"

----------------------------------------------------------------------------
(* C1: in backtest_midas_swap, at the end of every simulated day the       *)
(* number of open positions is at most MAX_POSITIONS.                      *)
C1_AtMostMaxPositions ==
    engine = "swap" => Len(led.portfolio) <= MAX_POSITIONS

(* C2: in each slot-based engine cash is >= 0 after every fill and at the  *)
(* end of every day; a BUY whose net cost exceeds the cash on hand does    *)
(* not debit cash (it is not among the orders filled).                     *)
C2_CashNeverNegative ==
    /\ Cash >= 0
    /\ led.cash >= 0
    /\ obs.min_cash >= 0
    /\ obs.nocash \cap obs.filled = {}

C2_Witness ==
    /\ obs.nocash # {}
    /\ \E o \in obs.filled : IsBuy(o)

(* C3: in each slot-based engine no two open positions have the same       *)
(* symbol, in every reachable ledger state.                                *)
C3_OnePositionPerSymbol ==
    \A i, j \in 1..Len(Positions) :
        i # j => Positions[i].symbol # Positions[j].symbol

\* a symbol is held while an older BUY order for it is still queued
C3_Witness ==
    /\ Len(Positions) = MAX_POSITIONS
    /\ \E k \in 1..Len(Pending) :
          /\ IsBuy(Pending[k])
          /\ Pending[k].symbol \in SymbolsInPort(Positions)

(* C4: in backtest_midas_swap every order created in day N's step is       *)
(* scheduled for the trading day right after N, none is created on the     *)
(* last date, and no order-driven fill happens on the day of the data that *)
(* triggered it: an entry record's entry_date is later than its decision   *)
(* day, and only a STOP_LOSS exit is dated on its own decision day.        *)
C4_NoSameDayFill ==
    engine = "swap" =>
      /\ \A k \in 1..Len(led.pending_orders) :
            LET o == led.pending_orders[k]
            IN  /\ o.target_date = o.decision_date + 1
                /\ o.decision_date <= day
                /\ o.decision_date < NumDays
      /\ \A k \in 1..Len(led.trade_log) :
            LET r == led.trade_log[k]
            IN  IF r.exit_date = 0 THEN r.entry_date > r.decision_date
                ELSE \/ r.exit_date > r.decision_date
                     \/ r.exit_date = r.decision_date /\ r.reason = "STOP_LOSS"

C4_Witness ==
    /\ engine = "swap"
    /\ day = NumDays
    /\ \E k \in 1..Len(led.trade_log) :
          /\ led.trade_log[k].exit_date = NumDays
          /\ led.trade_log[k].reason \in {"TIME_EXIT", "SWAP"}
    /\ \E k \in 1..Len(led.trade_log) : led.trade_log[k].reason = "STOP_LOSS"
    /\ \E k \in 1..Len(led.trade_log) :
          led.trade_log[k].exit_date = 0 /\ led.trade_log[k].entry_date = NumDays

(* C8: in backtest_midas_swap an order whose symbol has no bar on its      *)
(* target date is moved to a later date: after each day's fill step the    *)
(* queue holds no order whose target date has already passed.              *)
C8_NoStaleOrder ==
    engine = "swap" =>
      \A k \in 1..Len(led.pending_orders) : led.pending_orders[k].target_date > day

(* C9: in backtest_midas_swap and live_portfolio_manager a BUY whose net   *)
(* cost exceeds the cash on its fill day stays in the pending queue.       *)
C9_CashRejectedStaysQueued ==
    engine \in {"swap", "live"} => obs.nocash \subseteq SeqSet(Pending)

(* C10: in backtest_midas_swap and live_portfolio_manager every BUY fill   *)
(* appends one entry record, every removal of a position appends one       *)
(* closing record that carries the entry_date, entry_price and shares of   *)
(* the position's entry record, and no position is closed twice.           *)
SameTrade(a, b) ==
    /\ a.symbol = b.symbol
    /\ a.entry_date = b.entry_date
    /\ a.entry_price = b.entry_price
    /\ a.shares = b.shares

EntryRecords == {k \in 1..Len(TradeLog) : TradeLog[k].exit_date = 0}
ClosingRecords == {k \in 1..Len(TradeLog) : TradeLog[k].exit_date # 0}

C10_OneRecordPerClose ==
    engine \in {"swap", "live"} =>
      /\ \A c \in ClosingRecords :
            Cardinality({e \in EntryRecords :
                            e < c /\ SameTrade(TradeLog[e], TradeLog[c])}) = 1
      /\ \A c1, c2 \in ClosingRecords :
            c1 # c2 => ~SameTrade(TradeLog[c1], TradeLog[c2])
      /\ \A e \in EntryRecords :
            (\E c \in ClosingRecords : SameTrade(TradeLog[e], TradeLog[c]))
            # (\E i \in 1..Len(Positions) : SameTrade(TradeLog[e], Positions[i]))
      /\ Cardinality(EntryRecords) = Cardinality(ClosingRecords) + Len(Positions)

\* a position is closed while an earlier SELL order for it is still queued,
\* and another one is closed by its stop-loss
C10_Witness ==
    /\ engine = "swap"
    /\ \E k \in 1..Len(led.pending_orders), c \in ClosingRecords :
          /\ led.pending_orders[k].type = "SELL"
          /\ led.pending_orders[k].symbol = TradeLog[c].symbol
          /\ TradeLog[c].entry_date < led.pending_orders[k].target_date
          /\ TradeLog[c].exit_date > led.pending_orders[k].target_date
    /\ \E c \in ClosingRecords : TradeLog[c].reason = "STOP_LOSS"

(* C5: on the same table, after every date the live manager and the       *)
(* backtest (backtest_midas_swap) hold the same cash and the same open     *)
(* positions, and have logged the same fills and exits: same symbols,      *)
(* dates, prices, shares and reasons.                                      *)
PosView(portfolio) ==
    [i \in 1..Len(portfolio) |->
        [symbol |-> portfolio[i].symbol, entry_date |-> portfolio[i].entry_date,
         entry_price |-> portfolio[i].entry_price, shares |-> portfolio[i].shares]]

LogView(log) ==
    [i \in 1..Len(log) |->
        [symbol |-> log[i].symbol, entry_date |-> log[i].entry_date,
         exit_date |-> log[i].exit_date, entry_price |-> log[i].entry_price,
         exit_price |-> log[i].exit_price, shares |-> log[i].shares,
         reason |-> log[i].reason]]

C5_SameDecisions ==
    (engine = "pair" /\ day >= 1) =>
      /\ disk.state.cash = led.cash
      /\ PosView(disk.state.positions) = PosView(led.portfolio)
      /\ LogView(disk.trades_csv) = LogView(led.trade_log)

(* C6: over complete runs of the live manager, a run simulates only dates  *)
(* later than the last_date it loaded, in increasing order and none        *)
(* beyond the table; the equity log only grows, so no date is simulated    *)
(* twice; last_date never decreases; the first run simulates nothing and   *)
(* sets last_date to the latest date of the table.                         *)
AddedEquityRows ==
    SubSeq(disk'.equity_csv, Len(disk.equity_csv) + 1, Len(disk'.equity_csv))

C6_RunStep ==
    /\ LastDateOnDisk' >= LastDateOnDisk
    /\ Len(disk'.equity_csv) >= Len(disk.equity_csv)
    /\ SubSeq(disk'.equity_csv, 1, Len(disk.equity_csv)) = disk.equity_csv
    /\ \A k \in 1..Len(AddedEquityRows) :
          /\ AddedEquityRows[k] > LastDateOnDisk
          /\ AddedEquityRows[k] <= LastDateOnDisk'
          /\ AddedEquityRows[k] <= axis
          /\ k > 1 => AddedEquityRows[k] > AddedEquityRows[k - 1]
    /\ (~disk.state.exists /\ disk'.state.exists) =>
          /\ AddedEquityRows = <<>>
          /\ disk'.state.last_date = axis
    /\ (pc = "sim" /\ pc' = "sim") =>
          /\ led'.last_date > led.last_date
          /\ led'.last_date > LastDateOnDisk
          /\ led'.last_date = Head(led.new_dates)

C6_OnlyNewDatesSimulated == [][C6_RunStep]_vars

\* a run has simulated two dates at once, after earlier runs simulated others
C6_Witness ==
    /\ engine = "live"
    /\ pc = "sim"
    /\ led.new_dates = <<>>
    /\ Len(led.equity_rows) = 2
    /\ Len(disk.equity_csv) >= 1

(* C7: whenever no run of the live manager is in progress, the equity log  *)
(* holds the dates simulated by the runs whose save_state completed, each  *)
(* once, and every position of the state file has its entry in the trade   *)
(* log.                                                                    *)
C7_LogsMatchCheckpoint ==
    (engine = "live" /\ pc = "idle" /\ ~disk.state.truncated) =>
      /\ disk.equity_csv = committed
      /\ \A k \in 1..Len(disk.equity_csv) : disk.equity_csv[k] <= LastDateOnDisk
      /\ \A i \in 1..Len(Positions) :
            \E e \in EntryRecords : SameTrade(TradeLog[e], Positions[i])

(* C11: in backtest_midas_swap, at the end of every day the recorded       *)
(* equity is cash plus shares x mark price over the open positions (the    *)
(* day's close, the entry price when the symbol has no bar), and cash is   *)
(* INITIAL_CAPITAL minus the net cost of every BUY fill plus the net       *)
(* proceeds of every close recorded so far.                                *)
MarkPrice(pos) ==
    IF rows[pos.symbol].has THEN rows[pos.symbol].close ELSE pos.entry_price

MarkedValue ==
    SumSeq([i \in 1..Len(led.portfolio) |->
                led.portfolio[i].shares * MarkPrice(led.portfolio[i])])

NetFlow(r) ==
    IF r.exit_date = 0
    THEN 0 - Up(r.shares * r.entry_price, COMMISSION_PM)
    ELSE Down(r.shares * r.exit_price, COMMISSION_PM)

C11_EquityIdentity ==
    (engine = "swap" /\ day >= 1) =>
      /\ led.equity.date = day
      /\ led.equity.equity = led.cash + MarkedValue
      /\ led.cash = INITIAL_CAPITAL
                    + SumSeq([k \in 1..Len(led.trade_log) |-> NetFlow(led.trade_log[k])])

C11_Witness ==
    /\ engine = "swap"
    /\ \E k \in 1..Len(led.trade_log) : led.trade_log[k].reason = "STOP_LOSS"
    /\ \E k \in 1..Len(led.trade_log) : led.trade_log[k].reason \in {"SWAP", "TIME_EXIT"}
    /\ \E i \in 1..Len(led.portfolio) : ~rows[led.portfolio[i].symbol].has
    /\ \E i \in 1..Len(led.portfolio) :
          /\ rows[led.portfolio[i].symbol].has
          /\ rows[led.portfolio[i].symbol].close # led.portfolio[i].entry_price

(* C12: two runs of backtest_midas_swap over the same table record the     *)
(* same trades in the same order and the same equity on every day.         *)
C12_SameOutput ==
    engine = "twin" =>
      /\ LogView(led.a.trade_log) = LogView(led.b.trade_log)
      /\ led.a.equity = led.b.equity

(* C13: in backtest_midas_swap, when the bar of an open position has       *)
(* open > stop_level >= low, with stop_level = entry_price x (1 +           *)
(* STOP_LOSS_PCT), the STOP_LOSS record of that day carries exit_price =    *)
(* stop_level.                                                             *)
C13_StopAtStopLevel ==
    engine = "swap" =>
      \A k \in 1..Len(led.trade_log) :
         LET r == led.trade_log[k]
             stop_level == Down(r.entry_price, STOP_LOSS_PM)
         IN  (/\ r.reason = "STOP_LOSS"
              /\ r.exit_date = day
              /\ rows[r.symbol].has
              /\ rows[r.symbol].open > stop_level
              /\ rows[r.symbol].low <= stop_level)
             => r.exit_price = stop_level

(* C15: in backtest_midas_swap the shares of a BUY fill are                *)
(* floor(allocated / (open x (1 + SLIPPAGE_BUY) x (1 + COMMISSION))).      *)
C15_SharesAfterCommission ==
    engine = "swap" =>
      \A o \in obs.filled :
         o.type = "BUY" =>
            \A k \in 1..Len(led.trade_log) :
               LET r == led.trade_log[k]
               IN  (r.exit_date = 0 /\ r.entry_date = day /\ r.symbol = o.symbol)
                   => r.shares = (o.capital * 1000)
                                 \div (Up(rows[o.symbol].open, SLIPPAGE_BUY_PM)
                                       * (1000 + COMMISSION_PM))

(* C19: in backtest_midas_swap and live_portfolio_manager, at the end of   *)
(* the k-th simulated day since its fill (fill day = 1) an open position   *)
(* has days_held = k.                                                      *)
Today ==
    IF engine = "live"
    THEN (IF pc = "idle" THEN LastDateOnDisk ELSE led.last_date)
    ELSE day

C19_DaysHeldCountsDays ==
    engine \in {"swap", "live"} =>
      \A i \in 1..Len(Positions) :
         Positions[i].days_held = Today - Positions[i].entry_date + 1

\* a position held over a day without bar, beside one filled today
C19_Witness ==
    /\ engine = "live"
    /\ pc = "sim"
    /\ \E i, j \in 1..Len(Positions) :
          /\ Positions[i].days_held >= 2
          /\ ~rows[Positions[i].symbol].has
          /\ Positions[j].days_held = 1

(* C20: in live_portfolio_manager every exit other than STOP_LOSS is       *)
(* executed on a later day than the day that decided it.                   *)
C20_TimeExitDeferred ==
    engine = "live" =>
      \A k \in 1..Len(TradeLog) :
         (TradeLog[k].exit_date # 0 /\ TradeLog[k].reason # "STOP_LOSS")
            => TradeLog[k].exit_date > TradeLog[k].decision_date

(* C14: in backtest_midas_swap and backtest_midas a TIME_EXIT is scheduled *)
(* on the evening of the day a position's days_held reaches HORIZON_DAYS,  *)
(* for the next date, and not before; the scheduled exit is executed on    *)
(* that next date when the symbol has a bar, so a position with a bar      *)
(* every day is sold on the (HORIZON_DAYS + 1)-th day counted from its     *)
(* fill day, in backtest_midas at that day's open less the sell slippage.  *)
NewRecords == (Len(led.trade_log) + 1)..Len(led'.trade_log)

C14_Scheduled ==
    /\ (engine = "swap" /\ day < NumDays) =>
          \A i \in 1..Len(led.portfolio) :
             (led.portfolio[i].days_held >= HORIZON_DAYS)
             <=> \E k \in 1..Len(led.pending_orders) :
                    /\ led.pending_orders[k].type = "SELL"
                    /\ led.pending_orders[k].reason = "TIME_EXIT"
                    /\ led.pending_orders[k].symbol = led.portfolio[i].symbol
                    /\ led.pending_orders[k].decision_date = day
                    /\ led.pending_orders[k].target_date = day + 1
    /\ (engine = "midas" /\ day < NumDays) =>
          \A i \in 1..Len(led.portfolio) :
             LET pos == led.portfolio[i]
             IN  /\ pos.days_held >= HORIZON_DAYS => pos.exit_planned_date # 0
                 /\ pos.exit_reason_planned = "TIME_EXIT" =>
                       /\ pos.days_held >= HORIZON_DAYS
                       /\ pos.exit_planned_date = pos.entry_date + HORIZON_DAYS
    /\ engine \in {"swap", "midas"} =>
          \A k \in 1..Len(led.trade_log) :
             (led.trade_log[k].exit_date # 0 /\ led.trade_log[k].reason = "TIME_EXIT")
             => /\ led.trade_log[k].exit_date >= led.trade_log[k].entry_date + HORIZON_DAYS
                /\ engine = "midas" =>
                      led.trade_log[k].exit_date
                         = led.trade_log[k].entry_date + HORIZON_DAYS

C14_Executed ==
    /\ engine = "swap" =>
          \A k \in 1..Len(led.pending_orders) :
             LET o == led.pending_orders[k]
             IN  (o.type = "SELL" /\ o.reason = "TIME_EXIT" /\ o.target_date = day')
                 => \/ o \in obs'.nobar
                    \/ \E j \in NewRecords :
                          /\ led'.trade_log[j].symbol = o.symbol
                          /\ led'.trade_log[j].reason = "TIME_EXIT"
                          /\ led'.trade_log[j].exit_date = day'
    /\ engine = "midas" =>
          \A i \in 1..Len(led.portfolio) :
             LET pos == led.portfolio[i]
             IN  (/\ pos.exit_planned_date = day'
                  /\ pos.exit_reason_planned = "TIME_EXIT"
                  /\ rows[pos.symbol].has)
                 => \E j \in NewRecords :
                       /\ led'.trade_log[j].symbol = pos.symbol
                       /\ led'.trade_log[j].reason = "TIME_EXIT"
                       /\ led'.trade_log[j].exit_date = day'
                       /\ led'.trade_log[j].exit_price
                             = Down(rows[pos.symbol].open, SLIPPAGE_SELL_PM)

C14_TimeExitOnSchedule == [](C14_Scheduled) /\ [][C14_Executed]_vars

C14_Witness ==
    /\ engine = "midas"
    /\ \E k \in 1..Len(led.trade_log) :
          /\ led.trade_log[k].reason = "TIME_EXIT"
          /\ led.trade_log[k].exit_date = led.trade_log[k].entry_date + HORIZON_DAYS
    /\ \E i \in 1..Len(led.portfolio) : led.portfolio[i].days_held < HORIZON_DAYS

(* C16: in backtest_midas_swap, when the regime indicator of day T is      *)
(* below the hard-bear threshold, no BUY order is decided on day T.        *)
C16_NoBuyInHardBear ==
    (engine = "swap" /\ day >= 1 /\ obs.regime_val < HARD_BEAR_THRESHOLD_PCT) =>
      \A k \in 1..Len(led.pending_orders) :
         ~(led.pending_orders[k].type = "BUY"
           /\ led.pending_orders[k].decision_date = day)

(* C17: in backtest_midas_swap on a flat table with one score for all      *)
(* rows, no trade is recorded and the equity of every day is               *)
(* INITIAL_CAPITAL.                                                        *)
C17_FlatNoTrade ==
    (engine = "swap" /\ rows \in FlatTables) =>
      /\ led.trade_log = <<>>
      /\ day >= 1 => led.equity.equity = INITIAL_CAPITAL

(* C18: backtest_midas_swap never ends with an exception on a row with a   *)
(* non-positive price.                                                     *)
C18_BadRowSkipped == engine = "swap" => pc # "raised"

(* C21: in backtest_midas a position enters the ledger only in the step of *)
(* the day its BUY fills: at the end of day N's step no open position has  *)
(* an entry_date later than N.                                             *)
C21_MidasFillOnFillDay ==
    engine = "midas" =>
      \A i \in 1..Len(led.portfolio) : led.portfolio[i].entry_date <= day

(* C22, as claimed: every record of the trade log of backtest_midas_swap   *)
(* has a reason in {ENTRY, STOP_LOSS, TIME_EXIT, MODEL_TP, SWAP}; an entry *)
(* record carries ENTRY and a closing record the reason of the rule that   *)
(* closed the position.                                                    *)
C22_ReasonDomain_Claimed ==
    engine = "swap" =>
      \A k \in 1..Len(led.trade_log) :
         LET r == led.trade_log[k]
         IN  /\ r.reason \in {"ENTRY", "STOP_LOSS", "TIME_EXIT", "MODEL_TP", "SWAP"}
             /\ r.exit_date = 0 <=> r.reason = "ENTRY"

(* C22: every record of the trade log of backtest_midas_swap has a reason  *)
(* in {ENTRY, SWAP_ENTRY, STOP_LOSS, TIME_EXIT, SWAP}. An entry record     *)
(* carries ENTRY, or SWAP_ENTRY when the BUY was the bought side of a      *)
(* rotation pair; a closing record carries the reason of the rule that     *)
(* closed the position: STOP_LOSS when it is dated on its decision day,    *)
(* else the reason TIME_EXIT or SWAP of the SELL order that was filled.    *)
C22_ReasonDomain ==
    engine = "swap" =>
      \A k \in 1..Len(led.trade_log) :
         LET r == led.trade_log[k]
         IN  /\ r.reason \in {"ENTRY", "SWAP_ENTRY", "STOP_LOSS", "TIME_EXIT", "SWAP"}
             /\ r.exit_date = 0 <=> r.reason \in {"ENTRY", "SWAP_ENTRY"}
             /\ r.exit_date # 0 =>
                  (r.reason = "STOP_LOSS" <=> r.exit_date = r.decision_date)

\* a rotation has been carried out, and a stop-loss and a time exit too
C22_Witness ==
    /\ engine = "swap"
    /\ \E k \in 1..Len(led.trade_log) : led.trade_log[k].reason = "SWAP_ENTRY"
    /\ \E k \in 1..Len(led.trade_log) : led.trade_log[k].reason = "SWAP"
    /\ \E k \in 1..Len(led.trade_log) : led.trade_log[k].reason = "STOP_LOSS"
    /\ \E k \in 1..Len(led.trade_log) : led.trade_log[k].reason = "TIME_EXIT"

(* C23: for every entry price and bar, compute_stop_loss (swap),           *)
(* compute_stop_exit (live) and compute_realistic_stop (backtest_engine)    *)
(* report a stop exactly when low <= stop_level = entry_price x (1 +        *)
(* stop_loss_pct), at the open when open <= stop_level and at stop_level    *)
(* otherwise, and no stop when low > stop_level; so the three agree on      *)
(* every bar.                                                              *)
C23_StopEvaluatorsAgree ==
    (engine = "stop" /\ pc = "done") =>
      LET stop_level == Down(led.entry_price, STOP_LOSS_PM)
          hit == led.row.low <= stop_level
          raw == IF led.row.open <= stop_level THEN led.row.open ELSE stop_level
      IN  /\ obs.swap.hit = hit
          /\ obs.live.hit = hit
          /\ obs.engine.hit = hit
          /\ hit => /\ obs.swap.exit_raw = raw
                    /\ obs.live.exit_price = raw
                    /\ obs.engine.stop_ret = (raw * 1000) \div led.entry_price - 1000

(* C24: in the evening scheduling of backtest_midas_swap and of            *)
(* backtest_midas the first matching rule wins. A position that has        *)
(* reached the horizon gets one SELL for the next date, tagged TIME_EXIT,  *)
(* and is not the sold side of a rotation pair; no position has two SELL   *)
(* orders for one target date; a position already scheduled for exit is    *)
(* not scheduled again.                                                    *)
SellsFor(sym) ==
    {k \in 1..Len(led.pending_orders) :
        led.pending_orders[k].type = "SELL" /\ led.pending_orders[k].symbol = sym}

C24_TimeExitFirst ==
    (engine = "swap" /\ day >= 1 /\ day < NumDays) =>
       \A i \in 1..Len(led.portfolio) :
          LET today == {k \in SellsFor(led.portfolio[i].symbol) :
                           led.pending_orders[k].decision_date = day}
          IN  /\ Cardinality(today) <= 1
              /\ led.portfolio[i].days_held >= HORIZON_DAYS =>
                    /\ Cardinality(today) = 1
                    /\ \A k \in today : led.pending_orders[k].reason = "TIME_EXIT"

C24_OneSellPerTarget ==
    engine = "swap" =>
       \A i \in 1..Len(led.portfolio) :
          \A k1, k2 \in SellsFor(led.portfolio[i].symbol) :
             k1 # k2 => led.pending_orders[k1].target_date
                           # led.pending_orders[k2].target_date

C24_NotScheduledAgain ==
    engine = "swap" =>
       \A i \in 1..Len(led.portfolio) :
          Cardinality(SellsFor(led.portfolio[i].symbol)) <= 1

C24_MidasState ==
    (engine = "midas" /\ day >= 1) =>
       \A i \in 1..Len(led.portfolio) :
          LET pos == led.portfolio[i]
          IN  (pos.exit_planned_date = day + 1 /\ pos.days_held >= HORIZON_DAYS)
                 => pos.exit_reason_planned = "TIME_EXIT"

C24_MidasStep ==
    engine = "midas" =>
       \A i \in 1..Len(led.portfolio), j \in 1..Len(led'.portfolio) :
          (/\ led.portfolio[i].symbol = led'.portfolio[j].symbol
           /\ led.portfolio[i].entry_date = led'.portfolio[j].entry_date
           /\ led.portfolio[i].exit_planned_date # 0)
          => /\ led'.portfolio[j].exit_planned_date = led.portfolio[i].exit_planned_date
             /\ led'.portfolio[j].exit_reason_planned
                   = led.portfolio[i].exit_reason_planned

C24_FirstRuleWins ==
    /\ [](C24_TimeExitFirst /\ C24_OneSellPerTarget /\ C24_NotScheduledAgain
          /\ C24_MidasState)
    /\ [][C24_MidasStep]_vars

(* C25: in backtest_midas_swap, on every day at most SWAP_LIMIT rotation   *)
(* pairs are scheduled, no held symbol is the sold side of two pairs, no   *)
(* candidate the bought side of two pairs, no bought-side candidate is     *)
(* held, and every pair yields exactly one SELL and one BUY order, both    *)
(* for the next date.                                                      *)
OrdersOfToday(type, reason) ==
    {k \in 1..Len(led.pending_orders) :
        /\ led.pending_orders[k].type = type
        /\ led.pending_orders[k].reason = reason
        /\ led.pending_orders[k].decision_date = day}

EligibleWorstFirst ==
    SelectSeq(PosScores(led.portfolio, rows),
              LAMBDA x : led.portfolio[x.idx].symbol \notin TimeExitSymbols(led.portfolio))

GreedyPairs ==
    LET cands == BestCandidates(led.portfolio, DaySorted(rows))
        n == Min(SWAP_LIMIT, Min(Len(EligibleWorstFirst), Len(cands)))
        ok(k) == rows[cands[k]].score - EligibleWorstFirst[k].score >= SWAP_GAP_PCT
        m == Cardinality({k \in 1..n : \A j \in 1..k : ok(j)})
    IN  [k \in 1..m |->
            [worst |-> led.portfolio[EligibleWorstFirst[k].idx].symbol, best |-> cands[k]]]

C26_GreedyPairs ==
    (/\ engine = "swap" /\ day >= 1 /\ day < NumDays
     /\ \A i \in 1..Len(led.portfolio) : rows[led.portfolio[i].symbol].has)
    => [k \in 1..Len(obs.swap_pairs) |->
           [worst |-> obs.swap_pairs[k].worst.symbol, best |-> obs.swap_pairs[k].best]]
       = GreedyPairs

(* C27: in backtest_midas_swap a rotation pair is scheduled only if the    *)
(* held symbol has a bar today (a score to compare) and the candidate's    *)
(* score exceeds the held position's score by more than SWAP_GAP.          *)
C27_PairNeedsScoreGap ==
    (engine = "swap" /\ day >= 1) =>
      \A k \in 1..Len(obs.swap_pairs) :
         LET worst_sym == obs.swap_pairs[k].worst.symbol
             best_sym == obs.swap_pairs[k].best
         IN  /\ rows[worst_sym].has
             /\ rows[best_sym].has
             /\ rows[best_sym].score - rows[worst_sym].score > SWAP_GAP_PCT

(* C28, as claimed: in backtest_midas_swap the entry planner takes          *)
(* free_slots = MAX_POSITIONS minus the open positions not scheduled for   *)
(* exit that evening, by TIME_EXIT or by rotation, and schedules ENTRY     *)
(* orders for exactly the top min(free_slots, available) symbols by        *)
(* descending score among the symbols neither held nor bought by a         *)
(* rotation pair of the day.                                               *)
EntrySymbols ==
    {led.pending_orders[k].symbol : k \in OrdersOfToday("BUY", "ENTRY")}

Available ==
    {x \in Symbols : /\ rows[x].has
                     /\ x \notin SymbolsInPort(led.portfolio)
                     /\ \A k \in 1..Len(obs.swap_pairs) : obs.swap_pairs[k].best # x}

RotationSold == {obs.swap_pairs[k].worst.symbol : k \in 1..Len(obs.swap_pairs)}

TopOfAvailable(free_slots) ==
    /\ Cardinality(OrdersOfToday("BUY", "ENTRY")) = Cardinality(EntrySymbols)
    /\ EntrySymbols \subseteq Available
    /\ Cardinality(EntrySymbols) = Min(free_slots, Cardinality(Available))
    /\ \A e \in EntrySymbols, x \in Available \ EntrySymbols :
          rows[e].score >= rows[x].score

C28_FreeSlots_Claimed ==
    (engine = "swap" /\ day >= 1 /\ day < NumDays) =>
      TopOfAvailable(MAX_POSITIONS
                     - Cardinality(SymbolsInPort(led.portfolio)
                                   \ (TimeExitSymbols(led.portfolio) \cup RotationSold)))

(* C28: in backtest_midas_swap the entry planner takes free_slots =        *)
(* max(0, MAX_POSITIONS - (open positions - positions flagged TIME_EXIT    *)
(* that evening)), a position sold by a rotation pair counting as open     *)
(* since the pair's BUY takes its slot, and schedules ENTRY orders for     *)
(* exactly the top min(free_slots, available) symbols by descending score  *)
(* among the symbols neither held nor bought by a rotation pair of the     *)
(* day.                                                                    *)
C28_FreeSlots ==
    (engine = "swap" /\ day >= 1 /\ day < NumDays) =>
      TopOfAvailable(Max(0, MAX_POSITIONS
                            - (Len(led.portfolio)
                               - Cardinality(TimeExitSymbols(led.portfolio)))))

\* a rotation pair, a time exit and an entry are planned on the same evening
C28_Witness ==
    /\ engine = "swap"
    /\ day >= 1
    /\ day < NumDays
    /\ obs.swap_pairs # <<>>
    /\ TimeExitSymbols(led.portfolio) # {}
    /\ EntrySymbols # {}

(* C29: in backtest_midas_swap and backtest_midas every order-driven fill  *)
(* uses the fill day's open adjusted by the slippage: a BUY fills at       *)
(* open x (1 + SLIPPAGE_BUY) and debits shares x fill x (1 + COMMISSION),  *)
(* a SELL fills at open x (1 - SLIPPAGE_SELL) and credits shares x fill x  *)
(* (1 - COMMISSION), and the recorded entry_price / exit_price is the      *)
(* fill price.                                                             *)
SamePosition(p, q) == p.symbol = q.symbol /\ p.entry_date = q.entry_date

\* the cash a step of backtest_midas moves: closed positions in, new ones out
MidasFlow ==
    SumSeq([i \in 1..Len(led.portfolio) |->
              IF \E j \in 1..Len(led'.portfolio) :
                    SamePosition(led.portfolio[i], led'.portfolio[j])
              THEN 0
              ELSE LET r == led'.trade_log[CHOOSE j \in NewRecords :
                                  led'.trade_log[j].symbol = led.portfolio[i].symbol]
                   IN  Down(led.portfolio[i].shares * r.exit_price, COMMISSION_PM)])
    - SumSeq([j \in 1..Len(led'.portfolio) |->
                IF \E i \in 1..Len(led.portfolio) :
                      SamePosition(led.portfolio[i], led'.portfolio[j])
                THEN 0
                ELSE Up(led'.portfolio[j].shares * led'.portfolio[j].entry_price,
                        COMMISSION_PM)])

C29_FillStep ==
    /\ engine = "swap" =>
          /\ \A j \in NewRecords :
                LET r == led'.trade_log[j]
                IN  /\ r.exit_date = 0 =>
                          r.entry_price = Up(rows'[r.symbol].open, SLIPPAGE_BUY_PM)
                    /\ r.reason \in {"TIME_EXIT", "SWAP"} =>
                          r.exit_price = Down(rows'[r.symbol].open, SLIPPAGE_SELL_PM)
          /\ led'.cash = led.cash
                + SumSeq([j \in 1..(Len(led'.trade_log) - Len(led.trade_log)) |->
                             NetFlow(led'.trade_log[Len(led.trade_log) + j])])
    /\ engine = "midas" =>
          /\ \A j \in NewRecords :
                LET r == led'.trade_log[j]
                IN  r.reason # "STOP_LOSS" =>
                       r.exit_price = Down(rows[r.symbol].open, SLIPPAGE_SELL_PM)
          /\ \A j \in 1..Len(led'.portfolio) :
                led'.portfolio[j].entry_date = day' + 1 =>
                   led'.portfolio[j].entry_price
                      = Up(rows'[led'.portfolio[j].symbol].open, SLIPPAGE_BUY_PM)
          /\ led'.cash = led.cash + MidasFlow

C29_FillsAtSlippedOpen == [][C29_FillStep]_vars

\* backtest_midas has sold one position by plan, at a price other than its
\* entry price, and holds another one
C29_Witness ==
    /\ engine = "midas"
    /\ \E k \in 1..Len(led.trade_log) :
          /\ led.trade_log[k].reason \in {"TIME_EXIT", "MODEL_TP"}
          /\ led.trade_log[k].exit_price # led.trade_log[k].entry_price
    /\ led.portfolio # <<>>

(* C30: in the daily equity of backtest_midas_swap a position whose symbol *)
(* has no bar today is marked at the last known price, the close of the    *)
(* most recent earlier day on which it traded since entry, and at today's  *)
(* close when it has a bar. (Stated for the days on which every position   *)
(* without bar was held, with a bar, the day before.)                      *)
C30_MarkStep ==
    (/\ engine = "swap"
     /\ \A j \in 1..Len(led'.portfolio) :
           \/ rows'[led'.portfolio[j].symbol].has
           \/ /\ rows[led'.portfolio[j].symbol].has
              /\ \E i \in 1..Len(led.portfolio) :
                    SamePosition(led.portfolio[i], led'.portfolio[j]))
    => led'.equity.equity
         = led'.cash
           + SumSeq([j \in 1..Len(led'.portfolio) |->
                       led'.portfolio[j].shares
                       * (IF rows'[led'.portfolio[j].symbol].has
                          THEN rows'[led'.portfolio[j].symbol].close
                          ELSE rows[led'.portfolio[j].symbol].close)])

C30_MarkAtLastKnownPrice == [][C30_MarkStep]_vars

(* C31: in live_portfolio_manager, the daily_return written for a          *)
(* simulated day is the day's total equity over the total equity (cash     *)
(* plus position value) of the previous simulated day, minus one; this     *)
(* includes the first day simulated by a run that resumes from a state     *)
(* file holding open positions.                                            *)
\* the total equity of the previous simulated day: the row written earlier in
\* this run, else the checkpointed ledger at the prices of its last date
PrevDayEquity ==
    IF led.equity.date # 0 THEN led.equity.equity
    ELSE led.cash + PortVal(led.portfolio, rows)

C31_ReturnStep ==
    (engine = "live" /\ pc = "sim" /\ led.new_dates # <<>> /\ pc' = "sim") =>
        led'.equity.daily_return = DailyReturn(led'.equity.equity, PrevDayEquity)

C31_DailyReturnOverPrevEquity == [][C31_ReturnStep]_vars

(* C32: in backtest_midas, a planned exit whose date has no bar for the    *)
(* symbol is deferred, not lost: on the next date on which the symbol has  *)
(* a bar the position is closed (sold at that open, or stopped out), so no *)
(* position with a planned exit date in the past outlives a date on which  *)
(* its symbol has a bar.                                                   *)
C32_ExitStep ==
    (engine = "midas" /\ day' = day + 1) =>
       \A i \in 1..Len(led.portfolio) :
          LET pos == led.portfolio[i]
          IN  (/\ pos.exit_planned_date # 0
               /\ pos.exit_planned_date <= day + 1
               /\ rows[pos.symbol].has)
              => ~\E j \in 1..Len(led'.portfolio) :
                     /\ led'.portfolio[j].symbol = pos.symbol
                     /\ led'.portfolio[j].entry_date = pos.entry_date

C32_DeferredExitNotLost == [][C32_ExitStep]_vars

(* C33: in backtest_midas_swap, a rotation pair is executed atomically on  *)
(* its target day: the SELL of the held symbol and the BUY of its          *)
(* replacement either both fill or both do not fill.                       *)
\* the orders of the pair planned on the evening of `day` (SWAP_LIMIT = 1)
PairOrders(type, reason) ==
    {led.pending_orders[k] : k \in {n \in 1..Len(led.pending_orders) :
        /\ led.pending_orders[n].type = type
        /\ led.pending_orders[n].reason = reason
        /\ led.pending_orders[n].decision_date = day
        /\ led.pending_orders[n].target_date = day + 1}}

C33_PairStep ==
    (engine = "swap" /\ day >= 1 /\ day' = day + 1) =>
       \A s \in PairOrders("SELL", "SWAP"), b \in PairOrders("BUY", "SWAP_ENTRY") :
          (s \in obs'.filled) <=> (b \in obs'.filled)

C33_PairAtomic == [][C33_PairStep]_vars

(* C34: in backtest_midas_swap, ENTRY BUY orders sized by equal split      *)
(* (capital = cash / free_slots on the decision evening) are affordable at *)
(* fill: when the cash is still the cash they were sized from, every order *)
(* has a bar and buys at least one share, all of them pass the cash check  *)
(* and fill.                                                               *)
\* the ENTRY orders planned on the evening of `day`
EntriesOfEvening ==
    {led.pending_orders[k] : k \in {n \in 1..Len(led.pending_orders) :
        /\ led.pending_orders[n].type = "BUY"
        /\ led.pending_orders[n].reason = "ENTRY"
        /\ led.pending_orders[n].decision_date = day
        /\ led.pending_orders[n].target_date = day + 1}}

\* no other order is due on the fill day, so no fill moves the cash first
OnlyEntriesDue ==
    \A k \in 1..Len(led.pending_orders) :
       led.pending_orders[k].target_date = day + 1
          => led.pending_orders[k] \in EntriesOfEvening

C34_SizingStep ==
    (/\ engine = "swap"
     /\ day >= 1
     /\ day' = day + 1
     /\ OnlyEntriesDue
     /\ \A o \in EntriesOfEvening :
           /\ rows'[o.symbol].has
           /\ o.capital \div Up(rows'[o.symbol].open, SLIPPAGE_BUY_PM) >= 1)
    => \A o \in EntriesOfEvening : o \in obs'.filled

C34_EqualSplitAffordable == [][C34_SizingStep]_vars

(* C35: in live_portfolio_manager, from the empty initial state and after  *)
(* any sequence of runs, the open positions and the pending buys together  *)
(* are at most MAX_POSITIONS, their symbols are pairwise distinct, and a   *)
(* pending buy that cannot fill (no bar, not enough cash) stays pending    *)
(* and keeps its slot.                                                     *)
SlotSymbols ==
    [k \in 1..(Len(Positions) + Len(Pending)) |->
        IF k <= Len(Positions) THEN Positions[k].symbol
        ELSE Pending[k - Len(Positions)].symbol]

C35_SlotsState ==
    engine = "live" =>
       /\ Len(SlotSymbols) <= MAX_POSITIONS
       /\ \A i, j \in 1..Len(SlotSymbols) : i # j => SlotSymbols[i] # SlotSymbols[j]

C35_UnfilledStep ==
    (engine = "live" /\ pc = "sim" /\ led.new_dates # <<>> /\ pc' = "sim") =>
       \A o \in obs'.nobar \cup obs'.nocash :
          \E k \in 1..Len(led'.pending_orders) : led'.pending_orders[k] = o

C35_SlotsBounded == [](C35_SlotsState) /\ [][C35_UnfilledStep]_vars

\* a run has ended with a position and a buy that found no bar, and the
\* suggestions added nothing to the full slots
C35_Witness ==
    /\ engine = "live"
    /\ pc = "idle"
    /\ obs.nobar # {}
    /\ Len(Positions) >= 1
    /\ \A o \in obs.nobar : \E k \in 1..Len(Pending) : Pending[k] = o
    /\ Len(Positions) + Len(Pending) = MAX_POSITIONS

(* C36: a run of live_portfolio_manager that finds no date later than the  *)
(* last_date of the state file is idempotent: it simulates no day, appends *)
(* no equity row and no trade row, and writes back the cash, positions,    *)
(* pending_buys and last_date it loaded.                                   *)
C36_RepeatStep ==
    (engine = "live" /\ pc = "sim" /\ disk.state.exists /\ axis <= LastDateOnDisk) =>
       /\ led.new_dates = <<>>
       /\ led.equity_rows = <<>>
       /\ led.trade_log = <<>>
       /\ pc' = "idle"
       /\ disk' = disk

C36_RepeatedRunIdempotent == [][C36_RepeatStep]_vars

\* a repeated run is about to plan and save: it loaded a position and a free
\* slot, and the rows of its ref_date hold a candidate
C36_Witness ==
    /\ engine = "live"
    /\ pc = "sim"
    /\ disk.state.exists
    /\ axis <= LastDateOnDisk
    /\ Len(led.portfolio) >= 1
    /\ Len(led.portfolio) + Len(led.pending_orders) < MAX_POSITIONS
    /\ \E s \in Symbols : rows[s].has

(* C37: PipelineService.run_pipeline never has two script subprocesses     *)
(* alive at once: a request that arrives while another run is starting or  *)
(* running is rejected with 'A pipeline is already running' and changes no *)
(* service state, and once the subprocess has exited and its monitor has   *)
(* finished current_process is None again.                                 *)
AliveScripts == {r \in Requests : led.proc[r] = "alive"}

RunInProgress ==
    \/ AliveScripts # {}
    \/ \E q \in Requests : led.request[q].at = "spawn"

C37_OneScriptAlive ==
    engine = "service" => Cardinality(AliveScripts) <= 1

C37_ResetAfterExit ==
    (/\ engine = "service"
     /\ ~RunInProgress
     /\ \A r \in Requests : led.monitor[r].at \in {"none", "done"})
    => led.current_process = 0

C37_RejectStep ==
    engine = "service" =>
       \A r \in Requests :
          (led.request[r].at = "new" /\ led'.request[r].at # "new" /\ RunInProgress)
          => /\ led'.request[r].reply = "A pipeline is already running"
             /\ led' = [led EXCEPT !.request[r] = led'.request[r]]

C37_SingleRun ==
    /\ [](C37_OneScriptAlive /\ C37_ResetAfterExit)
    /\ [][C37_RejectStep]_vars

(* C38: in backtest_v4 and backtest_triple_barier the regime multiplier    *)
(* applies to the whole day: a day whose regime value is at or below       *)
(* HARD_BEAR_THRESHOLD adds no trade row and no return record; on a day    *)
(* with HARD_BEAR_THRESHOLD < regime < 0 the gross return and the          *)
(* round-trip cost are both halved; on a day with regime >= 0 both are     *)
(* taken in full.                                                          *)
NewTradeRows == SubSeq(led'.trade_rows, Len(led.trade_rows) + 1, Len(led'.trade_rows))

\* the day's return at full size, from the weights and returns of its trades
FullGross ==
    SumSeq([k \in 1..Len(NewTradeRows) |->
              IF engine = "v4"
              THEN NewTradeRows[k].weight_raw * NewTradeRows[k].future_ret_after_sl
              ELSE NewTradeRows[k].weight * NewTradeRows[k].future_eff])

C38_RegimeStep ==
    (engine \in {"v4", "triple"} /\ day' = day + 1 /\ obs'.regime.has) =>
       LET regime == obs'.regime.val
           enough == Len(obs'.table) >= (IF engine = "v4" THEN TOP_K ELSE 1)
           r == led'.records[Len(led'.records)]
       IN  /\ regime <= HARD_BEAR_THRESHOLD_PCT => led' = led
           /\ (regime > HARD_BEAR_THRESHOLD_PCT /\ enough) =>
                 /\ Len(led'.records) = Len(led.records) + 1
                 /\ Len(NewTradeRows) = Min(TOP_K, Len(obs'.table))
                 /\ regime < 0 =>
                       /\ r.risk_multiplier = 500
                       /\ r.gross_ret * 2 = FullGross
                       /\ (r.gross_ret - r.net_ret) * 2 = ROUNDTRIP_COST_PPM
                 /\ regime >= 0 =>
                       /\ r.risk_multiplier = 1000
                       /\ r.gross_ret = FullGross
                       /\ r.gross_ret - r.net_ret = ROUNDTRIP_COST_PPM

NormalisedWeights ==
    LET rows_k == Head_(obs'.table, TOP_K)
    IN  InverseVolWeights([i \in 1..Len(rows_k) |-> rows_k[i].vol])

C39_WeightStep ==
    (engine = "engine" /\ day' = day + 1 /\ Len(obs'.table) >= 1) =>
       LET r == led'.records[Len(led'.records)]
       IN  /\ Len(led'.records) = Len(led.records) + 1
           /\ Len(r.weights) = Len(NormalisedWeights)
           /\ \A i \in 1..Len(r.weights) :
                 /\ r.weights[i] <= MAX_WEIGHT_PM
                 /\ r.weights[i] <= NormalisedWeights[i]
                 /\ r.weights[i] \in {NormalisedWeights[i], MAX_WEIGHT_PM}
                 /\ NormalisedWeights[i] < MAX_WEIGHT_PM
                       => r.weights[i] = NormalisedWeights[i]
           /\ SumSeq(r.weights) <= 1000
           /\ \A k \in 1..Len(NewTradeRows) :
                 NewTradeRows[k].weight = r.weights[NewTradeRows[k].symbol]
           /\ r.pnl = SumSeq([k \in 1..Len(NewTradeRows) |->
                                NewTradeRows[k].return * NewTradeRows[k].weight])

C39_CappedWeights == [][C39_WeightStep]_vars

\* a day with one weight cut to the cap and one below it, both traded, one of
\* them stopped out
C39_Witness ==
    /\ engine = "engine"
    /\ day >= 1
    /\ Len(led.records) >= 1
    /\ LET r == led.records[Len(led.records)]
       IN  /\ \E i, j \in 1..Len(r.weights) :
                 /\ r.weights[i] = MAX_WEIGHT_PM
                 /\ r.weights[j] < MAX_WEIGHT_PM
                 /\ r.weights[j] > 0
           /\ SumSeq(r.weights) < 1000
           /\ r.pnl < 0
    /\ Len(led.trade_rows) >= 2

(* C40: in backtest_v4, the weight_effective logged for a trade is its     *)
(* weight_raw times the day's risk multiplier: half of weight_raw on a     *)
(* mild bear day, weight_raw on a full-risk day.                           *)
C40_EffectiveWeight ==
    engine = "v4" =>
       \A k \in 1..Len(led.trade_rows) :
          led.trade_rows[k].weight_effective * 1000
             = led.trade_rows[k].weight_raw * led.trade_rows[k].risk_multiplier

====
